---- MODULE Spec2Model ----
(***************************************************************************)
(* Matching-and-detection engine of the prediction-market arbitrage        *)
(* monitor (src/arbitrage_detector.py).                                    *)
(*                                                                         *)
(* Text is modelled as a sequence of one-character strings, so that the    *)
(* regular expressions, the lower-casing, the similarity ratio and the     *)
(* deduplication key are computed character by character as the code does. *)
(* Prices and profit percentages are rationals [num, den] in lowest terms, *)
(* an exact-arithmetic reading of the floats of the code.                  *)
(***************************************************************************)
EXTENDS Integers, Sequences, FiniteSets, TLC

VARIABLES
    markets_by_platform,   \* detect_opportunities: the snapshot, an insertion-ordered mapping
    min_profit_threshold,  \* ArbitrageDetector.min_profit_threshold (percentage points)
    pc,                    \* "ready" before the call, then "returned" or "raised"
    collected,             \* the list `opportunities` as appended to, before the sort
    opportunities,         \* the sequence detect_opportunities returned
    fn,                    \* the function called
    args,                  \* the arguments of a call of one of the pure functions
    ret,                   \* the outcome of that call, [status, value]
    compared,              \* find_matching_markets: the comparisons made, in order
    calls,                 \* detect_opportunities: the calls made on the snapshot
    previous,              \* what the call before the last one returned
    MIN_PROFIT_THRESHOLD,  \* the environment variable read by Config: a number or unset
    ALLOWED_CATEGORIES,    \* Config.ALLOWED_CATEGORIES
    fetched,               \* fetch_all_markets: the outcome of each task, in task order
    finish_order,          \* the tasks (positions in self.platforms) in order of completion
    max_retries,           \* fetch_with_retry: the parameter
    attempt,               \* the loop variable of `for attempt in range(max_retries)`
    requests,              \* the HTTP requests issued so far by the call
    history,               \* what each request ended in, in order
    delay,                 \* the seconds of the asyncio.sleep under way
    last_error,            \* the local last_error
    _session,              \* ArbitrageMonitor._session: a session, or NoSession for None
    sessions,              \* the aiohttp.ClientSession objects created so far: 1..sessions
    closed,                \* the sessions whose .closed is True
    platform_sessions,     \* platform._session of each platform of self.platforms
    invoked,               \* what each platform's fetch_markets was last invoked with
    cycle,                 \* run_continuous: the local `cycle`
    stages,                \* per cycle, the stage of the scan that raised, or "none"
    notifier               \* whether self.notifier is set

vars == <<markets_by_platform, min_profit_threshold, pc, collected, opportunities,
          fn, args, ret, compared, calls, previous,
          MIN_PROFIT_THRESHOLD, ALLOWED_CATEGORIES, fetched, finish_order,
          max_retries, attempt, requests, history, delay, last_error,
          _session, sessions, closed, platform_sessions, invoked, cycle, stages,
          notifier>>

\* What only the monitoring loop and the session management write.
monitorVars == <<_session, sessions, closed, platform_sessions, invoked, cycle, stages,
                 notifier>>

\* What only fetch_with_retry writes.
retryVars == <<max_retries, attempt, requests, history, delay, last_error>>

\* What only a scan of ArbitrageMonitor writes.
scanVars == <<MIN_PROFIT_THRESHOLD, ALLOWED_CATEGORIES, fetched, finish_order>>

\* What only find_matching_markets, and only repeated detection, write.
matchVars == <<compared>>
detectVars == <<calls, previous>>

(***************************************************************************)
(* Characters and strings                                                  *)
(***************************************************************************)
UpperCase == <<"A","B","C","D","E","F","G","H","I","J","K","L","M",
               "N","O","P","Q","R","S","T","U","V","W","X","Y","Z">>
LowerCase == <<"a","b","c","d","e","f","g","h","i","j","k","l","m",
               "n","o","p","q","r","s","t","u","v","w","x","y","z">>
DigitChars == <<"0","1","2","3","4","5","6","7","8","9">>

\* The ASCII characters of the model in code-point order.
CodePoints == <<" ", "$", ",", "-", ".", "/">> \o DigitChars \o <<"?">>
              \o UpperCase \o <<"_">> \o LowerCase \o <<"|">>

Range(s) == {s[i] : i \in DOMAIN s}
Digits == Range(DigitChars)
Letters == Range(UpperCase) \cup Range(LowerCase)

\* ord(c), up to an order-preserving renumbering.
Ord(c) == CHOOSE i \in DOMAIN CodePoints : CodePoints[i] = c

\* str.lower() on one character.
LowerChar(c) ==
    IF c \in Range(UpperCase)
    THEN LowerCase[CHOOSE i \in DOMAIN UpperCase : UpperCase[i] = c]
    ELSE c

\* str.lower()
Lower(s) == [i \in DOMAIN s |-> LowerChar(s[i])]

\* Python's str < str: lexicographic by code point, a proper prefix is smaller.
RECURSIVE StrLessFrom(_, _, _)
StrLessFrom(s, t, i) ==
    IF i > Len(t) THEN FALSE
    ELSE IF i > Len(s) THEN TRUE
    ELSE IF s[i] # t[i] THEN Ord(s[i]) < Ord(t[i])
    ELSE StrLessFrom(s, t, i + 1)

StrLess(s, t) == StrLessFrom(s, t, 1)

Max(S) == CHOOSE x \in S : \A y \in S : y <= x
Min(S) == CHOOSE x \in S : \A y \in S : x <= y

(***************************************************************************)
(* The texts the inputs are drawn from                                     *)
(***************************************************************************)
\* Questions. The first two are the end-to-end pair of the specification.
QBtcX == <<"W","i","l","l"," ","B","T","C"," ","h","i","t"," ","$","1","0","0","k"," ","i","n"," ","2","0","2","5","?">>
QBtcY == <<"B","T","C"," ","r","e","a","c","h","e","s"," ","$","1","0","0",",","0","0","0"," ","i","n"," ","2","0","2","5"," ","-"," ","Y","e","s","/","N","o">>
\* Close texts whose price targets differ only in spelling.
QBtcK == <<"B","T","C"," ","$","1","0","0","k"," ","2","0","2","5">>
QBtcFull == <<"B","T","C"," ","$","1","0","0",",","0","0","0"," ","2","0","2","5">>
\* The same event in two phrasings, and the same text for another year.
QRain25 == <<"R","a","i","n"," ","2","0","2","5","?">>
QRain25b == <<"r","a","i","n"," ","2","0","2","5">>
QRain24 == <<"R","a","i","n"," ","2","0","2","4","?">>

\* The same text with two quarters and with two days, each in the same year.
QRainQ1 == <<"R","a","i","n"," ","Q","1"," ","2","0","2","5">>
QRainQ2 == <<"R","a","i","n"," ","Q","2"," ","2","0","2","5">>
QRainMay5 == <<"R","a","i","n"," ","M","a","y"," ","5","t","h",","," ","2","0","2","5">>
QRain6May == <<"R","a","i","n"," ","6"," ","m","a","y"," ","2","0","2","5">>

Questions == {QBtcX, QBtcY, QBtcK, QBtcFull, QRain25, QRain25b, QRain24,
              QRainQ1, QRainQ2, QRainMay5, QRain6May}

\* Two anagrams and the empty text, for the ratio alone.
QTide == <<"t","i","d","e">>
QDiet == <<"d","i","e","t">>
Texts == Questions \cup {QTide, QDiet, <<>>}

(***************************************************************************)
(* Regular expressions of ArbitrageDetector                                *)
(***************************************************************************)
\* \w at position i (FALSE outside the text).
IsWordAt(t, i) == i \in DOMAIN t /\ t[i] \in (Digits \cup Letters \cup {"_"})

\* \b between t[i-1] and t[i].
WordBoundary(t, i) == IsWordAt(t, i - 1) # IsWordAt(t, i)

\* The end of the maximal run of characters of `cls` starting at i (i - 1 if none).
RECURSIVE RunEnd(_, _, _)
RunEnd(t, i, cls) ==
    IF i \in DOMAIN t /\ t[i] \in cls THEN RunEnd(t, i + 1, cls) ELSE i - 1

\* Whether the literal `lit` occurs in t at position i.
LiteralAt(t, i, lit) ==
    /\ i + Len(lit) - 1 <= Len(t)
    /\ \A k \in DOMAIN lit : t[i + k - 1] = lit[k]

\* YEAR_PATTERN = \b(202[0-9]|2030)\b matched at position i.
YearAt(t, i) ==
    /\ i + 3 <= Len(t)
    /\ t[i] = "2" /\ t[i + 1] = "0"
    /\ \/ t[i + 2] = "2" /\ t[i + 3] \in Digits
       \/ t[i + 2] = "3" /\ t[i + 3] = "0"
    /\ WordBoundary(t, i)
    /\ WordBoundary(t, i + 4)

\* findall of YEAR_PATTERN, as a set. Two matches never overlap (a second one
\* would start at a \b between two digits), so every match position is found.
FindYears(text) ==
    {SubSeq(text, i, i + 3) : i \in {j \in DOMAIN text : YearAt(text, j)}}

\* The result for each text of the pool, computed once (@@ makes the table
\* an explicit one instead of an expression evaluated at every use).
YearsOf == [q \in Questions |-> FindYears(q)] @@ <<>>

_extract_years(text) ==
    IF text \in Questions THEN YearsOf[text] ELSE FindYears(text)

\* n digits, w blanks at position p.
DigitsAt(t, p, n) == p + n - 1 <= Len(t) /\ \A k \in 0..(n - 1) : t[p + k] \in Digits
BlanksAt(t, p, w) == p + w - 1 <= Len(t) /\ \A k \in 0..(w - 1) : t[p + k] = " "

\* The first position at or after i at which a match of a pattern ends, as
\* given by `ends` (0 where the pattern does not match), 0 if there is none.
NextMatch(ends, i) ==
    IF \E p \in DOMAIN ends : p >= i /\ ends[p] > 0
    THEN Min({p \in DOMAIN ends : p >= i /\ ends[p] > 0})
    ELSE 0

\* pattern.findall from position i: the groups of the leftmost match, then of
\* the leftmost match after its end, and so on. m[p] is the match at p as
\* [end, groups], end = 0 for no match.
RECURSIVE FindAllFrom(_, _)
FindAllFrom(m, i) ==
    IF NextMatch([p \in DOMAIN m |-> m[p].end], i) = 0 THEN <<>>
    ELSE <<m[NextMatch([p \in DOMAIN m |-> m[p].end], i)].groups>>
         \o FindAllFrom(m, m[NextMatch([p \in DOMAIN m |-> m[p].end], i)].end + 1)

NoMatch == [end |-> 0, groups |-> <<>>]

\* Of the ways a pattern can match at one position, each a sequence of the
\* choices made at its quantifiers in the order they occur, the one the
\* backtracking search finds first: at each quantifier the greedy choice
\* (the larger number) before the smaller.
RECURSIVE Preferred(_, _, _)
Preferred(c1, c2, k) ==
    IF k > Len(c1) THEN TRUE
    ELSE IF c1[k] # c2[k] THEN c1[k] > c2[k]
    ELSE Preferred(c1, c2, k + 1)

FirstFound(ways) == CHOOSE c \in ways : \A c2 \in ways : Preferred(c, c2, 1)

\* DATE_PATTERNS[0] = \b(\d{1,2})[/-](\d{1,2})[/-](\d{2,4})\b at position i.
\* A way is <<d1, d2, d3>>, the numbers of digits of the three groups.
NumericDateWays(t, i) ==
    {c \in (1..2) \X (1..2) \X (2..4) :
        /\ WordBoundary(t, i)
        /\ DigitsAt(t, i, c[1])
        /\ i + c[1] \in DOMAIN t /\ t[i + c[1]] \in {"/", "-"}
        /\ DigitsAt(t, i + c[1] + 1, c[2])
        /\ i + c[1] + 1 + c[2] \in DOMAIN t /\ t[i + c[1] + 1 + c[2]] \in {"/", "-"}
        /\ DigitsAt(t, i + c[1] + c[2] + 2, c[3])
        /\ WordBoundary(t, i + c[1] + c[2] + c[3] + 2)}

NumericDateGiven(t, i, c) ==
    [end |-> i + c[1] + c[2] + c[3] + 1,
     groups |-> << SubSeq(t, i, i + c[1] - 1),
                   SubSeq(t, i + c[1] + 1, i + c[1] + c[2]),
                   SubSeq(t, i + c[1] + c[2] + 2, i + c[1] + c[2] + c[3] + 1) >>]

NumericDateAt(t, i) ==
    IF NumericDateWays(t, i) = {} THEN NoMatch
    ELSE NumericDateGiven(t, i, FirstFound(NumericDateWays(t, i)))

\* The month names of DATE_PATTERNS[1] and [2], in the order of the alternation.
MonthNames ==
    << <<"j","a","n","u","a","r","y">>,
       <<"f","e","b","r","u","a","r","y">>,
       <<"m","a","r","c","h">>,
       <<"a","p","r","i","l">>,
       <<"m","a","y">>,
       <<"j","u","n","e">>,
       <<"j","u","l","y">>,
       <<"a","u","g","u","s","t">>,
       <<"s","e","p","t","e","m","b","e","r">>,
       <<"o","c","t","o","b","e","r">>,
       <<"n","o","v","e","m","b","e","r">>,
       <<"d","e","c","e","m","b","e","r">> >>

\* The length of the month name at position p of the lower-cased text (the
\* patterns ignore case), 0 if there is none. No name is a prefix of another.
MonthLenAt(lt, p) ==
    IF \E k \in DOMAIN MonthNames : LiteralAt(lt, p, MonthNames[k])
    THEN Len(MonthNames[CHOOSE k \in DOMAIN MonthNames : LiteralAt(lt, p, MonthNames[k])])
    ELSE 0

\* (?:st|nd|rd|th) at position p of the lower-cased text.
OrdinalAt(lt, p) ==
    \E s \in {<<"s","t">>, <<"n","d">>, <<"r","d">>, <<"t","h">>} : LiteralAt(lt, p, s)

\* The tail ,?\s*(\d{4})?\b of the two month patterns from position p:
\* c[1] commas, c[2] blanks, c[3] years.
DateTailFits(t, p, c) ==
    /\ c[1] = 1 => (p \in DOMAIN t /\ t[p] = ",")
    /\ BlanksAt(t, p + c[1], c[2])
    /\ c[3] = 1 => DigitsAt(t, p + c[1] + c[2], 4)
    /\ WordBoundary(t, p + c[1] + c[2] + 4 * c[3])

\* DATE_PATTERNS[1] =
\* \b(january|...|december)\s+(\d{1,2})(?:st|nd|rd|th)?,?\s*(\d{4})?\b
\* at position i; b is the position after the month name and its blanks (\s+
\* takes them all: what follows must be a digit). A way is
\* <<digits of the day, ordinal suffix, comma, blanks, year>>.
MonthDayWays(t, lt, i, b) ==
    {c \in (1..2) \X (0..1) \X (0..1) \X (0..Len(t)) \X (0..1) :
        /\ WordBoundary(t, i)
        /\ MonthLenAt(lt, i) > 0
        /\ b > i + MonthLenAt(lt, i)
        /\ DigitsAt(t, b, c[1])
        /\ c[2] = 1 => OrdinalAt(lt, b + c[1])
        /\ DateTailFits(t, b + c[1] + 2 * c[2], <<c[3], c[4], c[5]>>)}

MonthDayGiven(t, lt, i, b, c) ==
    [end |-> b + c[1] + 2 * c[2] + c[3] + c[4] + 4 * c[5] - 1,
     groups |-> << SubSeq(t, i, i + MonthLenAt(lt, i) - 1),
                   SubSeq(t, b, b + c[1] - 1),
                   IF c[5] = 1
                   THEN SubSeq(t, b + c[1] + 2 * c[2] + c[3] + c[4],
                               b + c[1] + 2 * c[2] + c[3] + c[4] + 3)
                   ELSE <<>> >>]

MonthDayFrom(t, lt, i, b) ==
    IF MonthDayWays(t, lt, i, b) = {} THEN NoMatch
    ELSE MonthDayGiven(t, lt, i, b, FirstFound(MonthDayWays(t, lt, i, b)))

MonthDayAt(t, i) ==
    MonthDayFrom(t, Lower(t), i, RunEnd(t, i + MonthLenAt(Lower(t), i), {" "}) + 1)

\* DATE_PATTERNS[2] =
\* \b(\d{1,2})(?:st|nd|rd|th)?\s+(january|...|december),?\s*(\d{4})?\b
\* at position i. A way is <<digits of the day, ordinal suffix, comma, blanks,
\* year>>; the blanks before the month are all taken by \s+.
MonthAfterDay(t, c, i) == RunEnd(t, i + c[1] + 2 * c[2], {" "}) + 1

DayMonthWays(t, lt, i) ==
    {c \in (1..2) \X (0..1) \X (0..1) \X (0..Len(t)) \X (0..1) :
        /\ WordBoundary(t, i)
        /\ DigitsAt(t, i, c[1])
        /\ c[2] = 1 => OrdinalAt(lt, i + c[1])
        /\ MonthAfterDay(t, c, i) > i + c[1] + 2 * c[2]
        /\ MonthLenAt(lt, MonthAfterDay(t, c, i)) > 0
        /\ DateTailFits(t, MonthAfterDay(t, c, i) + MonthLenAt(lt, MonthAfterDay(t, c, i)),
                        <<c[3], c[4], c[5]>>)}

DayMonthGiven(t, i, c, m, e) ==
    [end |-> e + c[3] + c[4] + 4 * c[5] - 1,
     groups |-> << SubSeq(t, i, i + c[1] - 1),
                   SubSeq(t, m, e - 1),
                   IF c[5] = 1
                   THEN SubSeq(t, e + c[3] + c[4], e + c[3] + c[4] + 3)
                   ELSE <<>> >>]

DayMonthChosen(t, lt, i, c) ==
    DayMonthGiven(t, i, c, MonthAfterDay(t, c, i),
                  MonthAfterDay(t, c, i) + MonthLenAt(lt, MonthAfterDay(t, c, i)))

DayMonthIn(t, lt, i) ==
    IF DayMonthWays(t, lt, i) = {} THEN NoMatch
    ELSE DayMonthChosen(t, lt, i, FirstFound(DayMonthWays(t, lt, i)))

DayMonthAt(t, i) == DayMonthIn(t, Lower(t), i)

\* DATE_PATTERNS[3] = \bQ([1-4])\s*(\d{4})\b at position i; b is the position
\* after the blanks (\s* takes them all: what follows must be a digit).
QuarterFrom(t, i, b) ==
    IF /\ WordBoundary(t, i)
       /\ i + 1 \in DOMAIN t /\ t[i] = "Q" /\ t[i + 1] \in {"1", "2", "3", "4"}
       /\ DigitsAt(t, b, 4)
       /\ WordBoundary(t, b + 4)
    THEN [end |-> b + 3, groups |-> << <<t[i + 1]>>, SubSeq(t, b, b + 3) >>]
    ELSE NoMatch

QuarterAt(t, i) == QuarterFrom(t, i, RunEnd(t, i + 2, {" "}) + 1)

\* Lines 65-71: the matches of the four patterns, pattern after pattern. An
\* element is the tuple of groups findall gives (str() of it in the code).
FindDates(text) ==
    FindAllFrom([p \in DOMAIN text |-> NumericDateAt(text, p)] @@ <<>>, 1)
    \o FindAllFrom([p \in DOMAIN text |-> MonthDayAt(text, p)] @@ <<>>, 1)
    \o FindAllFrom([p \in DOMAIN text |-> DayMonthAt(text, p)] @@ <<>>, 1)
    \o FindAllFrom([p \in DOMAIN text |-> QuarterAt(text, p)] @@ <<>>, 1)

\* The result for each text of the pool, computed once.
DatesOf == [q \in Questions |-> FindDates(q)] @@ <<>>

_extract_dates(text) ==
    IF text \in Questions THEN DatesOf[text] ELSE FindDates(text)

\* The optional (?:\.\d+)? after position e: the end of what it consumes.
FractionEnd(t, e) ==
    IF e + 2 <= Len(t) /\ t[e + 1] = "." /\ t[e + 2] \in Digits
    THEN RunEnd(t, e + 2, Digits)
    ELSE e

\* First alternative of PRICE_PATTERN at i: \$[\d,]+(?:\.\d+)?[kKmMbB]?
\* The end of the match, 0 if none. Every quantifier is greedy and nothing
\* follows that could force backtracking.
DollarPriceEnd(t, i) ==
    IF ~(i \in DOMAIN t /\ t[i] = "$") THEN 0
    ELSE LET e1 == RunEnd(t, i + 1, Digits \cup {","})
             e2 == FractionEnd(t, e1)
         IN  IF e1 < i + 1 THEN 0
             ELSE IF e2 + 1 <= Len(t) /\ t[e2 + 1] \in {"k","K","m","M","b","B"}
                  THEN e2 + 1
                  ELSE e2

\* Second alternative at i: \b[\d,]+(?:\.\d+)?\s*(?:dollars?|usd)\b
\* A shorter run, fraction or blank run leaves a character that none of the
\* following items accepts, so only the greedy choice can match.
WordPriceEnd(t, i) ==
    IF ~(i \in DOMAIN t /\ t[i] \in (Digits \cup {","}) /\ WordBoundary(t, i)) THEN 0
    ELSE LET e1 == RunEnd(t, i, Digits \cup {","})
             e2 == FractionEnd(t, e1)
             e3 == RunEnd(t, e2 + 1, {" "})
             lt == Lower(t)
         IN  IF LiteralAt(lt, e3 + 1, <<"d","o","l","l","a","r","s">>)
                /\ WordBoundary(t, e3 + 8) THEN e3 + 7
             ELSE IF LiteralAt(lt, e3 + 1, <<"d","o","l","l","a","r">>)
                /\ WordBoundary(t, e3 + 7) THEN e3 + 6
             ELSE IF LiteralAt(lt, e3 + 1, <<"u","s","d">>)
                /\ WordBoundary(t, e3 + 4) THEN e3 + 3
             ELSE 0

PriceEnd(t, i) ==
    IF DollarPriceEnd(t, i) > 0 THEN DollarPriceEnd(t, i) ELSE WordPriceEnd(t, i)

\* findall of PRICE_PATTERN from position i: leftmost matches, each search
\* resuming after the previous match.
RECURSIVE PriceScan(_, _)
PriceScan(t, i) ==
    IF i > Len(t) THEN {}
    ELSE IF PriceEnd(t, i) > 0
         THEN {SubSeq(t, i, PriceEnd(t, i))} \cup PriceScan(t, PriceEnd(t, i) + 1)
         ELSE PriceScan(t, i + 1)

\* The result for each text of the pool, computed once.
PriceTargetsOf == [q \in Questions |-> PriceScan(Lower(q), 1)] @@ <<>>

_extract_price_targets(text) ==
    IF text \in Questions THEN PriceTargetsOf[text] ELSE PriceScan(Lower(text), 1)

(***************************************************************************)
(* difflib.SequenceMatcher(None, a, b).ratio(), for texts shorter than the *)
(* 200 characters at which the automatic junk heuristic starts.            *)
(***************************************************************************)
\* The length of the common run of a from i and b from j, inside a[..ahi], b[..bhi].
RECURSIVE CommonRun(_, _, _, _, _, _)
CommonRun(a, b, i, j, ahi, bhi) ==
    IF i <= ahi /\ j <= bhi /\ a[i] = b[j]
    THEN 1 + CommonRun(a, b, i + 1, j + 1, ahi, bhi)
    ELSE 0

\* find_longest_match(alo, ahi, blo, bhi): <<i, j, k>> with a[i..i+k-1] = b[j..j+k-1],
\* k maximal; of those the earliest in a, and of those the earliest in b.
\* Bounds are inclusive and the ranges are not empty.
LongestAt(run, k, i) ==
    <<i, Min({p[2] : p \in {q \in DOMAIN run : run[q] = k /\ q[1] = i}}), k>>

LongestOf(run, k) ==
    LongestAt(run, k, Min({p[1] : p \in {q \in DOMAIN run : run[q] = k}}))

LongestIn(run) == LongestOf(run, Max({run[p] : p \in DOMAIN run}))

find_longest_match(a, b, alo, ahi, blo, bhi) ==
    LongestIn([p \in (alo..ahi) \X (blo..bhi) |->
                  CommonRun(a, b, p[1], p[2], ahi, bhi)] @@ <<>>)

\* The total size of get_matching_blocks(): the longest match, then the same
\* to its left and to its right.
RECURSIVE MatchedLength(_, _, _, _, _, _)
\* The block m = <<i, j, k>> and the blocks to its left and to its right.
MatchedAround(a, b, alo, ahi, blo, bhi, m) ==
    IF m[3] = 0 THEN 0
    ELSE m[3]
         + MatchedLength(a, b, alo, m[1] - 1, blo, m[2] - 1)
         + MatchedLength(a, b, m[1] + m[3], ahi, m[2] + m[3], bhi)

MatchedLength(a, b, alo, ahi, blo, bhi) ==
    IF alo > ahi \/ blo > bhi THEN 0
    ELSE MatchedAround(a, b, alo, ahi, blo, bhi,
                       find_longest_match(a, b, alo, ahi, blo, bhi))

RECURSIVE GCD(_, _)
GCD(m, n) == IF n = 0 THEN m ELSE GCD(n, m % n)

\* A number as the rational [num, den] in lowest terms, den > 0, so that
\* equal numbers are equal values.
Rat(n, d) ==
    [num |-> n \div GCD(IF n < 0 THEN 0 - n ELSE n, d),
     den |-> d \div GCD(IF n < 0 THEN 0 - n ELSE n, d)]
RatLess(x, y) == x.num * y.den < y.num * x.den
RatEq(x, y) == x.num * y.den = y.num * x.den
RatGeq(x, y) == ~RatLess(x, y)

\* ratio() = 2.0 * matches / (len(a) + len(b)), and 1.0 for two empty texts.
Ratio(a, b) ==
    IF Len(a) + Len(b) = 0 THEN Rat(1, 1)
    ELSE Rat(2 * MatchedLength(a, b, 1, Len(a), 1, Len(b)), Len(a) + Len(b))

\* The ratio for each pair of texts of the pool, computed once.
RatioOf == [p \in Questions \X Questions |-> Ratio(Lower(p[1]), Lower(p[2]))] @@ <<>>

similarity_ratio(str1, str2) ==
    IF str1 \in Questions /\ str2 \in Questions THEN RatioOf[<<str1, str2>>]
    ELSE Ratio(Lower(str1), Lower(str2))

(***************************************************************************)
(* Equivalence of two questions                                            *)
(***************************************************************************)
\* Variant: the year mismatch falls through, as the date branch does.
YearsNotCompared(question1, question2) == TRUE

\* Variant: two questions that both have dates must have the same dates.
DatesMustAgree(dates1, dates2) == ~(dates1 # <<>> /\ dates2 # <<>> /\ dates1 # dates2)

\* Lines 94-98: `if dates1 and dates2: pass`, then `return True`.
DatesNotCompared(dates1, dates2) == TRUE

_temporal_compatible(question1, question2) ==
    LET years1 == _extract_years(question1)
        years2 == _extract_years(question2)
    IN  IF years1 # {} /\ years2 # {} /\ years1 # years2 THEN FALSE
        ELSE DatesNotCompared(_extract_dates(question1), _extract_dates(question2))

\* Variant: the price-target mismatch falls through.
PriceTargetsNotCompared(question1, question2) == TRUE

_price_target_compatible(question1, question2) ==
    LET prices1 == _extract_price_targets(question1)
        prices2 == _extract_price_targets(question2)
    IN  ~(prices1 # {} /\ prices2 # {} /\ prices1 # prices2)

\* Lines 124-134, once `similarity` is computed: <<is_match, similarity>>.
SameEventGiven(question1, question2, similarity_threshold, similarity) ==
    IF RatLess(similarity, similarity_threshold) THEN <<FALSE, similarity>>
    ELSE IF ~_temporal_compatible(question1, question2) THEN <<FALSE, similarity>>
    ELSE IF ~_price_target_compatible(question1, question2) THEN <<FALSE, similarity>>
    ELSE <<TRUE, similarity>>

are_same_event(question1, question2, similarity_threshold) ==
    SameEventGiven(question1, question2, similarity_threshold,
                   similarity_ratio(question1, question2))

(***************************************************************************)
(* Price values. A price read from a feed is None, a float, a numeric      *)
(* string such as "0.4" (float() accepts it) or something float() rejects. *)
(***************************************************************************)
NoneVal == [kind |-> "None", val |-> Rat(0, 1)]
Float(n, d) == [kind |-> "float", val |-> Rat(n, d)]
NumStr(n, d) == [kind |-> "str", val |-> Rat(n, d)]
NonNumeric == [kind |-> "other", val |-> Rat(0, 1)]

\* The outcome of a call: a returned value or a raised exception.
Return(v) == [status |-> "return", value |-> v]
Raise(e) == [status |-> "raise", value |-> e]

\* Variant: the bounds 0.0 and 1.0 accepted (<= for <).
InClosedUnitInterval(r) == 0 <= r.num /\ r.num <= r.den

\* 0.0 < odds_float < 1.0
InOpenUnitInterval(r) == 0 < r.num /\ r.num < r.den

_validate_odds(odds) ==
    IF odds.kind = "None" THEN FALSE
    ELSE IF odds.kind = "other" THEN FALSE      \* float() raises, caught
    ELSE InOpenUnitInterval(odds.val)

\* Variant: a total cost of exactly 1.0 accepted.
LeavesNoLoss(total_cost) == total_cost.num <= total_cost.den /\ total_cost.num > 0

\* total_cost < 1.0 and total_cost > 0
LeavesProfit(total_cost) == total_cost.num < total_cost.den /\ total_cost.num > 0

\* Variant: the profit measured against the payout of 1 instead of the cost.
ProfitOnPayout(total_cost) ==
    Rat((total_cost.den - total_cost.num) * 100, total_cost.den)

\* ((1.0 - total_cost) / total_cost) * 100
ProfitPct(total_cost) ==
    Rat((total_cost.den - total_cost.num) * 100, total_cost.num)

check_cross_platform_arbitrage(price_a, price_b) ==
    IF ~_validate_odds(price_a) \/ ~_validate_odds(price_b) THEN Return(NoneVal)
    ELSE IF price_a.kind = "str" \/ price_b.kind = "str"
         \* str + float raises at once; str + str concatenates and the
         \* comparison of the result with 1.0 raises.
         THEN Raise("TypeError")
    ELSE LET total_cost == Rat(price_a.val.num * price_b.val.den
                                 + price_b.val.num * price_a.val.den,
                               price_a.val.den * price_b.val.den)
         IN  IF LeavesProfit(total_cost)
             THEN Return([kind |-> "float", val |-> ProfitPct(total_cost)])
             ELSE Return(NoneVal)

(***************************************************************************)
(* ArbitrageOpportunity                                                    *)
(***************************************************************************)
ArbitrageOpportunity(question, platform1, action1, odds1, platform2, action2, odds2, profit_percentage, volume1, volume2) ==
    [question |-> question,
     platform1 |-> platform1, action1 |-> action1, odds1 |-> odds1,
     platform2 |-> platform2, action2 |-> action2, odds2 |-> odds2,
     profit_percentage |-> profit_percentage,
     volume1 |-> volume1, volume2 |-> volume2]

\* Variant: the platform names kept in the order given.
KeyInGivenOrder(opp) ==
    opp.question \o <<"|">> \o opp.platform1 \o <<"|">> \o opp.platform2

\* f"{question}|{a}|{b}" with the two platform names in ascending order.
get_unique_key(opp) ==
    IF StrLess(opp.platform1, opp.platform2)
    THEN opp.question \o <<"|">> \o opp.platform1 \o <<"|">> \o opp.platform2
    ELSE opp.question \o <<"|">> \o opp.platform2 \o <<"|">> \o opp.platform1

(***************************************************************************)
(* Markets and the cross-venue matcher                                     *)
(***************************************************************************)
\* Market(question, outcomes, odds, volume_24h, liquidity); the engine reads
\* question, odds and volume_24h. odds maps outcome labels to prices.
Market(question, odds, volume_24h) ==
    [question |-> question, odds |-> odds, volume_24h |-> volume_24h]

\* dict.get(key): None for an absent key.
Get(odds, key) == IF key \in DOMAIN odds THEN odds[key] ELSE NoneVal

\* The default of similarity_threshold, 0.75.
DefaultSimilarityThreshold == Rat(75, 100)

RECURSIVE Concat(_)
Concat(ss) == IF Len(ss) = 0 THEN <<>> ELSE Head(ss) \o Concat(Tail(ss))

\* The two inner loops of find_matching_markets for one pair of platforms.
\* Lines 156-157: what the pair adds to matching_pairs, r being the result
\* of are_same_event.
MatchOf(platform1, market1, platform2, market2, r) ==
    IF r[1] THEN << <<platform1, market1, platform2, market2, r[2]>> >> ELSE <<>>

\* Variant: the loop over markets2 outside the loop over markets1.
MatchesMarket2First(platform1, markets1, platform2, markets2, similarity_threshold) ==
    Concat([b \in 1..Len(markets2) |->
        Concat([a \in 1..Len(markets1) |->
            MatchOf(platform1, markets1[a], platform2, markets2[b],
                    are_same_event(markets1[a].question, markets2[b].question,
                                   similarity_threshold))])])

MatchesOfPair(platform1, markets1, platform2, markets2, similarity_threshold) ==
    Concat([a \in 1..Len(markets1) |->
        Concat([b \in 1..Len(markets2) |->
            MatchOf(platform1, markets1[a], platform2, markets2[b],
                    are_same_event(markets1[a].question, markets2[b].question,
                                   similarity_threshold))])])

\* Variant: every other platform, the earlier ones included.
OtherPlatforms(i, n) == (1..n) \ {i}

\* platforms[i+1:], as positions in the list of the n platforms.
LaterPlatforms(i, n) == (i + 1)..n

\* markets is the insertion-ordered mapping: a sequence of [name, markets].
find_matching_markets(markets, similarity_threshold) ==
    Concat([i \in 1..Len(markets) |->
        Concat([j \in 1..Len(markets) |->
            IF j \in LaterPlatforms(i, Len(markets))
            THEN MatchesOfPair(markets[i].name, markets[i].markets,
                               markets[j].name, markets[j].markets,
                               similarity_threshold)
            ELSE <<>>])])

\* The calls of are_same_event the four loops make, in order: <<i, a, j, b>>
\* for market a of the i-th platform against market b of the j-th.
ComparisonsOfPair(i, n1, j, n2) ==
    Concat([a \in 1..n1 |-> [b \in 1..n2 |-> <<i, a, j, b>>]])

Comparisons(markets) ==
    Concat([i \in 1..Len(markets) |->
        Concat([j \in 1..Len(markets) |->
            IF j \in LaterPlatforms(i, Len(markets))
            THEN ComparisonsOfPair(i, Len(markets[i].markets), j, Len(markets[j].markets))
            ELSE <<>>])])

(***************************************************************************)
(* The opportunity aggregator                                              *)
(***************************************************************************)
\* `x or 0`
OrZero(x) == IF x.kind = "None" \/ x.val.num = 0 THEN Float(0, 1) ELSE x

\* Truth value of the returned profit: None and 0.0 are false.
Truthy(x) == x.kind # "None" /\ x.val.num # 0

\* Variant: the threshold read as a fraction instead of percentage points.
MeetsFractionThreshold(profit, threshold) ==
    RatGeq(profit.val, Rat(threshold.num, threshold.den * 100))

\* The comparison of lines 208 and 230: profit >= self.min_profit_threshold.
MeetsThreshold(profit, threshold) == RatGeq(profit.val, threshold)

\* Lines 223-225 and 245-247: the deduplication test.
AddUnlessSeen(acc, opp, key) ==
    IF key \in acc.seen_keys THEN acc
    ELSE [acc EXCEPT !.seen_keys = @ \cup {key},
                     !.opportunities = Append(@, opp)]

\* Variant: every opportunity appended, seen or not.
AppendAlways(acc, opp) == [acc EXCEPT !.opportunities = Append(@, opp)]

\* Variant: of two opportunities with one key the more profitable is kept.
KeepHigherProfit(acc, opp) ==
    IF get_unique_key(opp) \notin acc.seen_keys
    THEN AddUnlessSeen(acc, opp, get_unique_key(opp))
    ELSE [acc EXCEPT !.opportunities =
             [k \in DOMAIN acc.opportunities |->
                 IF /\ get_unique_key(acc.opportunities[k]) = get_unique_key(opp)
                    /\ RatLess(acc.opportunities[k].profit_percentage.val,
                               opp.profit_percentage.val)
                 THEN opp
                 ELSE acc.opportunities[k]]]

Deduplicate(acc, opp) == AddUnlessSeen(acc, opp, get_unique_key(opp))

\* One scenario of the loop body (lines 206-225 and 228-247). acc is
\* [status, opportunities, seen_keys]; after an exception nothing more runs.
Scenario(acc, threshold, market1, market2, platform1, action1, odds1, platform2, action2, odds2) ==
    IF acc.status = "raise" THEN acc
    ELSE IF ~(_validate_odds(odds1) /\ _validate_odds(odds2)) THEN acc
    ELSE LET r == check_cross_platform_arbitrage(odds1, odds2)
         IN  IF r.status = "raise" THEN [acc EXCEPT !.status = "raise"]
             ELSE IF ~(Truthy(r.value) /\ MeetsThreshold(r.value, threshold)) THEN acc
             ELSE Deduplicate(acc,
                     ArbitrageOpportunity(market1.question,
                         platform1, action1, odds1, platform2, action2, odds2,
                         r.value, OrZero(market1.volume_24h), OrZero(market2.volume_24h)))

\* Variant: a pair with any missing or invalid price is skipped as a whole.
ProcessPairAllOrNothing(acc, threshold, m) ==
    IF \E k \in {"Yes", "No"} :
           ~_validate_odds(Get(m[2].odds, k)) \/ ~_validate_odds(Get(m[4].odds, k))
    THEN acc
    ELSE Scenario(Scenario(acc, threshold, m[2], m[4],
                           m[1], "Buy Yes", Get(m[2].odds, "Yes"),
                           m[3], "Buy No", Get(m[4].odds, "No")),
                  threshold, m[2], m[4],
                  m[1], "Buy No", Get(m[2].odds, "No"),
                  m[3], "Buy Yes", Get(m[4].odds, "Yes"))

\* The body of the loop over matching_markets for one matched pair.
ProcessPair(acc, threshold, m) ==
    LET platform1 == m[1]
        market1 == m[2]
        platform2 == m[3]
        market2 == m[4]
        p1_yes == Get(market1.odds, "Yes")
        p1_no == Get(market1.odds, "No")
        p2_yes == Get(market2.odds, "Yes")
        p2_no == Get(market2.odds, "No")
        s1 == Scenario(acc, threshold, market1, market2,
                       platform1, "Buy Yes", p1_yes, platform2, "Buy No", p2_no)
    IN  Scenario(s1, threshold, market1, market2,
                 platform1, "Buy No", p1_no, platform2, "Buy Yes", p2_yes)

RECURSIVE ProcessPairs(_, _, _, _)
ProcessPairs(acc, threshold, matching_markets, k) ==
    IF k > Len(matching_markets) THEN acc
    ELSE ProcessPairs(ProcessPair(acc, threshold, matching_markets[k]),
                      threshold, matching_markets, k + 1)

\* Variant: x put before the elements of equal profit (an ascending sort
\* reversed), which reverses ties.
InsertBeforeEqual(sorted, x) ==
    SelectSeq(sorted, LAMBDA e : RatLess(x.profit_percentage.val, e.profit_percentage.val))
    \o <<x>>
    \o SelectSeq(sorted, LAMBDA e : RatGeq(x.profit_percentage.val, e.profit_percentage.val))

\* Where list.sort(key=profit_percentage, reverse=True) puts x among the
\* already sorted earlier elements: after every element that is not smaller.
InsertDescending(sorted, x) ==
    SelectSeq(sorted, LAMBDA e : RatGeq(e.profit_percentage.val, x.profit_percentage.val))
    \o <<x>>
    \o SelectSeq(sorted, LAMBDA e : RatLess(e.profit_percentage.val, x.profit_percentage.val))

\* list.sort(key=lambda x: x.profit_percentage, reverse=True): stable.
RECURSIVE SortByProfitDescending(_)
SortByProfitDescending(s) ==
    IF Len(s) = 0 THEN <<>>
    ELSE InsertDescending(SortByProfitDescending(SubSeq(s, 1, Len(s) - 1)), s[Len(s)])

\* The matched pairs detect_opportunities works on (line 193: the default threshold).
MatchingMarkets(markets) == find_matching_markets(markets, DefaultSimilarityThreshold)

\* Variant: the keys seen by an earlier call still count as seen.
KeptSeenKeys(earlier) == earlier

\* Line 191: seen_keys is a local that starts empty at every call, whatever
\* keys an earlier call has seen.
NewSeenKeys(earlier) == {}

\* Lines 190-247 with seen_keys starting as `seen`.
CollectedFrom(seen, markets, threshold) ==
    ProcessPairs([status |-> "ok", opportunities |-> <<>>, seen_keys |-> seen],
                 threshold, MatchingMarkets(markets), 1)

\* The opportunities in the order they were appended, before the sort.
Collected(markets, threshold) == CollectedFrom(NewSeenKeys({}), markets, threshold)

\* The keys a call that returned `returned` had in seen_keys at its end: a key
\* is added exactly when its opportunity is appended.
SeenKeysOf(returned) == {get_unique_key(returned[k]) : k \in DOMAIN returned}

\* Lines 249-252 on the list collected by the loop.
SortAndReturn(acc) ==
    IF acc.status = "raise" THEN Raise("TypeError")
    ELSE Return(SortByProfitDescending(acc.opportunities))

detect_opportunities(markets, threshold) == SortAndReturn(Collected(markets, threshold))

(***************************************************************************)
(* Configuration and category filter (src/config.py, src/category_filter.py) *)
(***************************************************************************)
\* os.getenv gives None for a variable that is not set.
Unset == [kind |-> "unset", val |-> Rat(0, 1)]

\* Config.MIN_PROFIT_THRESHOLD = float(os.getenv('MIN_PROFIT_THRESHOLD', 0.1))
ConfigMinProfitThreshold(env) ==
    IF env.kind = "unset" THEN Rat(1, 10) ELSE env.val

\* ArbitrageDetector.__init__(min_profit_threshold: float = 2.0)
DefaultMinProfitThreshold == Rat(2, 1)

\* CATEGORY_KEYWORDS in the order of the dict. Of each category the keywords
\* that occur in a text of the model are all listed, with some that do not;
\* a keyword that occurs in no text cannot change any result.
CATEGORY_KEYWORDS ==
    << [category |-> "sports",
        keywords |-> {<<"n","b","a">>, <<"n","f","l">>, <<"m","a","t","c","h">>}],
       [category |-> "crypto",
        keywords |-> {<<"b","t","c">>, <<"b","i","t","c","o","i","n">>, <<"e","t","h">>}] >>

\* `keyword in question_lower`
Contains(text, keyword) == \E i \in DOMAIN text : LiteralAt(text, i, keyword)

\* The first category, in the order of the dict, one of whose keywords occurs
\* in the lower-cased question; "None" if there is none.
RECURSIVE CategoryFrom(_, _)
CategoryFrom(question_lower, k) ==
    IF k > Len(CATEGORY_KEYWORDS) THEN "None"
    ELSE IF \E keyword \in CATEGORY_KEYWORDS[k].keywords : Contains(question_lower, keyword)
         THEN CATEGORY_KEYWORDS[k].category
         ELSE CategoryFrom(question_lower, k + 1)

categorize_market(question) == CategoryFrom(Lower(question), 1)

\* str.split(sep): the parts between the separators, empty ones included.
RECURSIVE SplitFrom(_, _, _, _)
SplitFrom(s, sep, i, part) ==
    IF i > Len(s) THEN <<part>>
    ELSE IF s[i] = sep THEN <<part>> \o SplitFrom(s, sep, i + 1, <<>>)
    ELSE SplitFrom(s, sep, i + 1, Append(part, s[i]))

Split(s, sep) == SplitFrom(s, sep, 1, <<>>)

\* str.strip(): blanks removed at both ends.
RECURSIVE Strip(_)
Strip(s) ==
    IF s # <<>> /\ Head(s) = " " THEN Strip(Tail(s))
    ELSE IF s # <<>> /\ s[Len(s)] = " " THEN Strip(SubSeq(s, 1, Len(s) - 1))
    ELSE s

\* The categories _parse_categories knows, by their spelling.
KnownCategories ==
    { [name |-> "sports", spelling |-> <<"s","p","o","r","t","s">>],
      [name |-> "crypto", spelling |-> <<"c","r","y","p","t","o">>] }

\* config.py lines 8-22: the set of categories for the value of the
\* environment variable.
_parse_categories(env_value) ==
    IF env_value = <<>> \/ Lower(env_value) = <<"a","l","l">> THEN {}
    ELSE {c.name : c \in {k \in KnownCategories :
                              \E cat \in Range(Split(env_value, ",")) :
                                  Lower(Strip(cat)) = k.spelling}}

filter_markets(markets, allowed_categories) ==
    IF allowed_categories = {} THEN markets
    ELSE SelectSeq(markets, LAMBDA market : categorize_market(market.question) \in allowed_categories)

(***************************************************************************)
(* ArbitrageMonitor.fetch_all_markets (src/main.py)                        *)
(***************************************************************************)
\* Three of the six platforms of ArbitrageMonitor.__init__, in its order.
Polymarket == <<"P","o","l","y","m","a","r","k","e","t">>
DriftBET == <<"D","r","i","f","t"," ","B","E","T">>
Kalshi == <<"K","a","l","s","h","i">>
platforms == <<Polymarket, DriftBET, Kalshi>>

\* A task that has not finished.
Pending == [status |-> "pending", value |-> <<>>]

\* Variant: the results in the order in which the tasks finished.
ResultsAsCompleted(outcomes, order) == [k \in DOMAIN outcomes |-> outcomes[order[k]]]

\* asyncio.gather(*tasks, return_exceptions=True): the results, a raised
\* exception standing for its task's result, in the order of the tasks given,
\* whatever the order in which they finished.
gather(outcomes, order) == outcomes

\* Lines 87-101 for one platform: [] for an exception, else the filtered result.
EntryOf(platform_name, result, allowed_categories) ==
    [name |-> platform_name,
     markets |-> IF result.status = "raise" THEN <<>>
                 ELSE filter_markets(result.value, allowed_categories)]

\* Lines 83-112: the mapping built from zip(platform_names, results).
BuildMapping(platform_names, results, allowed_categories) ==
    [k \in DOMAIN platform_names |->
        EntryOf(platform_names[k], results[k], allowed_categories)]

fetch_all_markets(outcomes, order, allowed_categories) ==
    BuildMapping(platforms, gather(outcomes, order), allowed_categories)

(***************************************************************************)
(* The venue parsers (src/markets/*.py): _parse_markets of each platform,   *)
(* record by record. A raw price is None, a number, a numeric string, NaN,  *)
(* something float() rejects, or absent from the record.                    *)
(***************************************************************************)
NaN == [kind |-> "nan", val |-> Rat(0, 1)]
Absent == [kind |-> "absent", val |-> Rat(0, 1)]

\* dict.get(key, default) on a field that may be absent.
GetOr(x, default) == IF x.kind = "absent" THEN default ELSE x

\* float(x) returns for a number, a numeric string and NaN; it raises
\* TypeError for None and ValueError for any other string.
Floats(x) == x.kind \in {"float", "str", "nan"}
AsFloat(x) == IF x.kind = "nan" THEN NaN ELSE [kind |-> "float", val |-> x.val]

\* Comparisons of floats: every comparison with NaN is false.
FloatLess(a, b) == a.kind = "float" /\ b.kind = "float" /\ RatLess(a.val, b.val)
FloatLeq(a, b) == a.kind = "float" /\ b.kind = "float" /\ ~RatLess(b.val, a.val)

\* x / 100.0 and 1 - x
Hundredth(x) == IF x.kind = "nan" THEN NaN ELSE Float(x.val.num, x.val.den * 100)
Complement(x) == IF x.kind = "nan" THEN NaN ELSE Float(x.val.den - x.val.num, x.val.den)

\* 0 <= price <= 1, and 0 < price < 1.
InUnitRange(x) == FloatLeq(Float(0, 1), x) /\ FloatLeq(x, Float(1, 1))
StrictlyInUnitRange(x) == FloatLess(Float(0, 1), x) /\ FloatLess(x, Float(1, 1))

\* min(a, b) and max(a, b) of Python: the first argument unless the second
\* is smaller, respectively greater.
PyMin(a, b) == IF FloatLess(b, a) THEN b ELSE a
PyMax(a, b) == IF FloatLess(a, b) THEN b ELSE a

\* polymarket.py lines 83-90: the odds built from the outcomes and prices, an
\* outcome with a price outside [0,1] left out; a later entry of an outcome
\* replaces an earlier one.
PricedOutcomes(outcomes, outcome_prices) ==
    {i \in DOMAIN outcomes : i <= Len(outcome_prices)}
PolymarketOdds(outcomes, outcome_prices) ==
    [o \in {outcomes[i] : i \in {j \in PricedOutcomes(outcomes, outcome_prices) :
                                    InUnitRange(AsFloat(outcome_prices[j]))}} |->
        AsFloat(outcome_prices[Max({j \in PricedOutcomes(outcomes, outcome_prices) :
                                       outcomes[j] = o
                                       /\ InUnitRange(AsFloat(outcome_prices[j]))})])]

\* polymarket.py lines 61-110 for one record.
ParsePolymarket(r) ==
    IF r.question = <<>> THEN <<>>
    ELSE IF \E i \in PricedOutcomes(r.outcomes, r.outcomePrices) : ~Floats(r.outcomePrices[i])
         THEN <<>>
    ELSE IF "Yes" \notin DOMAIN PolymarketOdds(r.outcomes, r.outcomePrices)
            \/ "No" \notin DOMAIN PolymarketOdds(r.outcomes, r.outcomePrices)
         THEN <<>>
    ELSE IF ~Floats(GetOr(r.volume, Float(0, 1))) THEN <<>>
    ELSE << Market(r.question, PolymarketOdds(r.outcomes, r.outcomePrices),
                   AsFloat(GetOr(r.volume, Float(0, 1)))) >>

\* Variant: no validation of the range.
AnyPrices(yes_prob, no_prob) == TRUE

\* kalshi.py line 77 and limitless.py line 78: both prices within [0,1].
BothInUnitRange(yes_prob, no_prob) == InUnitRange(yes_prob) /\ InUnitRange(no_prob)

\* kalshi.py lines 63-70: the ask price, or the bid price if the ask is None
\* or absent; 0 if the bid is absent too.
AskOrBid(ask, bid) ==
    IF ask.kind \in {"None", "absent"} THEN GetOr(bid, Float(0, 1)) ELSE ask

\* kalshi.py lines 50-101 for one record.
KalshiEmits(r, yes_prob, no_prob) ==
    IF ~BothInUnitRange(yes_prob, no_prob) THEN <<>>
    ELSE IF ~Floats(GetOr(r.volume, Float(0, 1))) THEN <<>>
    ELSE << Market(r.question, [Yes |-> yes_prob, No |-> no_prob],
                   AsFloat(GetOr(r.volume, Float(0, 1)))) >>

ParseKalshi(r) ==
    IF r.question = <<>> THEN <<>>
    ELSE IF ~Floats(AskOrBid(r.yes_ask, r.yes_bid)) \/ ~Floats(AskOrBid(r.no_ask, r.no_bid))
         THEN <<>>
    ELSE KalshiEmits(r, Hundredth(AsFloat(AskOrBid(r.yes_ask, r.yes_bid))),
                        Hundredth(AsFloat(AskOrBid(r.no_ask, r.no_bid))))

\* str.endswith(suffix), str.replace(old, '') and ' '.join(parts)
EndsWith(s, suffix) ==
    Len(s) >= Len(suffix) /\ SubSeq(s, Len(s) - Len(suffix) + 1, Len(s)) = suffix
RECURSIVE RemoveAll(_, _)
RemoveAll(s, old) ==
    IF s = <<>> THEN <<>>
    ELSE IF LiteralAt(s, 1, old) THEN RemoveAll(SubSeq(s, Len(old) + 1, Len(s)), old)
    ELSE <<Head(s)>> \o RemoveAll(Tail(s), old)
RECURSIVE JoinWithBlank(_)
JoinWithBlank(parts) ==
    IF Len(parts) = 0 THEN <<>>
    ELSE IF Len(parts) = 1 THEN parts[1]
    ELSE parts[1] \o <<" ">> \o JoinWithBlank(Tail(parts))

\* drift_bet.py lines 17-35
FormatParts(market_name, parts) ==
    IF Len(parts) >= 2
    THEN <<"W","i","l","l"," ">> \o parts[1] \o <<" ">> \o JoinWithBlank(Tail(parts)) \o <<"?">>
    ELSE market_name \o <<"?">>
_format_question(ticker_id) ==
    FormatParts(RemoveAll(ticker_id, <<"-","B","E","T">>),
                Split(RemoveAll(ticker_id, <<"-","B","E","T">>), "-"))

\* drift_bet.py lines 86-87 and limitless.py lines 17-23: a price above 1 is
\* taken for a percentage.
PercentToUnit(price) ==
    IF FloatLess(Float(1, 1), price) THEN Hundredth(price) ELSE price

\* drift_bet.py lines 67-116 for one contract.
DriftEmits(r, last_price) ==
    IF ~StrictlyInUnitRange(last_price) THEN <<>>
    ELSE IF ~Floats(GetOr(r.volume, Float(0, 1))) THEN <<>>
    ELSE << Market(_format_question(r.ticker_id),
                   [Yes |-> last_price, No |-> Complement(last_price)],
                   AsFloat(GetOr(r.volume, Float(0, 1)))) >>

ParseDriftBET(r) ==
    IF ~EndsWith(r.ticker_id, <<"-","B","E","T">>) THEN <<>>
    ELSE IF ~Floats(GetOr(r.last_price, Float(0, 1))) THEN <<>>
    ELSE DriftEmits(r, PercentToUnit(AsFloat(GetOr(r.last_price, Float(0, 1)))))

\* `float(volume_raw) if volume_raw else 0`: absent, None and 0 give 0.
FloatOrZero(x) == IF x.kind \in {"absent", "None"} THEN Float(0, 1) ELSE x

\* limitless.py lines 96-98: a volume above a million is taken for micro-USDC.
MicroToUnit(x) ==
    IF FloatLess(Float(1000000, 1), x) THEN Float(x.val.num, x.val.den * 1000000) ELSE x

\* limitless.py lines 59-113 for one record.
LimitlessEmits(r, yes_price, no_price) ==
    IF ~BothInUnitRange(yes_price, no_price) THEN <<>>
    ELSE IF ~Floats(FloatOrZero(r.volume)) THEN <<>>
    ELSE << Market(r.question, [Yes |-> yes_price, No |-> no_price],
                   MicroToUnit(AsFloat(FloatOrZero(r.volume)))) >>

ParseLimitless(r) ==
    IF r.question = <<>> THEN <<>>
    ELSE IF Len(r.prices) < 2 THEN <<>>
    ELSE IF ~Floats(r.prices[1]) \/ ~Floats(r.prices[2]) THEN <<>>
    ELSE LimitlessEmits(r, PercentToUnit(AsFloat(r.prices[1])),
                           PercentToUnit(AsFloat(r.prices[2])))

\* opinion_labs.py lines 116-118: if either price is above 1, both are taken
\* for percentages.
BothToUnit(prob, yes_prob, no_prob) ==
    IF FloatLess(Float(1, 1), yes_prob) \/ FloatLess(Float(1, 1), no_prob)
    THEN Hundredth(prob) ELSE prob

\* opinion_labs.py lines 121-122: max(0.0, min(1.0, prob))
Clamp(prob) == PyMax(Float(0, 1), PyMin(Float(1, 1), prob))

\* opinion_labs.py lines 95-141 for one record, the prices being those of the
\* detail fetched for it (None if there is none).
ParseOpinionLabs(r) ==
    IF r.question = <<>> THEN <<>>
    ELSE IF r.yesPrice.kind \in {"None", "absent"} \/ r.noPrice.kind \in {"None", "absent"}
         THEN <<>>
    ELSE IF ~Floats(r.yesPrice) \/ ~Floats(r.noPrice) THEN <<>>
    ELSE IF ~Floats(GetOr(r.volume, Float(0, 1))) THEN <<>>
    ELSE << Market(r.question,
                   [Yes |-> Clamp(BothToUnit(AsFloat(r.yesPrice),
                                             AsFloat(r.yesPrice), AsFloat(r.noPrice))),
                    No |-> Clamp(BothToUnit(AsFloat(r.noPrice),
                                            AsFloat(r.yesPrice), AsFloat(r.noPrice)))],
                   AsFloat(GetOr(r.volume, Float(0, 1)))) >>

ParseRecord(venue, r) ==
    CASE venue = "Polymarket" -> ParsePolymarket(r)
      [] venue = "Kalshi" -> ParseKalshi(r)
      [] venue = "Drift BET" -> ParseDriftBET(r)
      [] venue = "Limitless" -> ParseLimitless(r)
      [] venue = "Opinion Labs" -> ParseOpinionLabs(r)

\* The loop over the records: the markets of the records in order.
RECURSIVE _parse_markets(_, _)
_parse_markets(venue, data) ==
    IF data = <<>> THEN <<>>
    ELSE ParseRecord(venue, Head(data)) \o _parse_markets(venue, Tail(data))

(***************************************************************************)
(* fetch_with_retry (src/utils.py)                                         *)
(***************************************************************************)
\* What one session.request can end in: a response with a status and a body
\* that response.json() decodes or fails on, or an exception.
Response(status, body) == [kind |-> "response", status |-> status, body |-> body]
Raised(error) == [kind |-> "raise", status |-> 0, body |-> error]

\* The decoded body of a 200 response.
JsonBody == [kind |-> "json", val |-> Rat(0, 1)]

RECURSIVE Pow2(_)
Pow2(n) == IF n = 0 THEN 1 ELSE 2 * Pow2(n - 1)

\* base_delay, in seconds (the default 1.0).
base_delay == 1

\* What the loop does next. then: "return" (value), "sleep" (seconds, after
\* which the next iteration starts), "break", or "raise" for an exception that
\* leaves the function.
Then(then, value, seconds, error) ==
    [then |-> then, value |-> value, seconds |-> seconds, error |-> error]

\* Variant: any other exception is followed by a sleep too, not by break.
OnExceptionAlwaysSleep(error, n, err) ==
    Then("sleep", NoneVal, base_delay * Pow2(n),
         IF error = "TimeoutError" THEN "Timeout" ELSE error)

\* Lines 78-93: the handlers, also for an exception raised by response.json().
\* error is "TimeoutError", "ClientError" (ContentTypeError is one) or the
\* name of any other Exception.
OnException(error, n, err) ==
    IF error = "TimeoutError" THEN Then("sleep", NoneVal, base_delay * Pow2(n), "Timeout")
    ELSE IF error \in {"ClientError", "ContentTypeError"}
         THEN Then("sleep", NoneVal, base_delay * Pow2(n), error)
    ELSE Then("break", NoneVal, 0, error)

\* Variant: no `except Exception` branch, any other exception leaves the function.
BodyOfLoopNoCatchAll(outcome, n, err) ==
    IF outcome.kind = "raise" /\ outcome.body \in {"TimeoutError", "ClientError"}
    THEN OnException(outcome.body, n, err)
    ELSE IF outcome.kind = "raise" THEN Then("raise", NoneVal, 0, err)
    ELSE IF outcome.status = 200
         THEN IF outcome.body = "json" THEN Then("return", JsonBody, 0, err)
              ELSE IF outcome.body = "ContentTypeError" THEN OnException(outcome.body, n, err)
              ELSE Then("raise", NoneVal, 0, err)
    ELSE IF outcome.status = 429 THEN Then("sleep", NoneVal, base_delay * Pow2(n) * 2, err)
    ELSE IF outcome.status >= 500 THEN Then("sleep", NoneVal, base_delay * Pow2(n), err)
    ELSE Then("return", NoneVal, 0, err)

\* Lines 51-93: one iteration, the request of which ends in `outcome`; n is
\* `attempt` and err the value of last_error before.
BodyOfLoop(outcome, n, err) ==
    IF outcome.kind = "raise" THEN OnException(outcome.body, n, err)
    ELSE IF outcome.status = 200
         THEN IF outcome.body = "json" THEN Then("return", JsonBody, 0, err)
              ELSE OnException(outcome.body, n, err)
    ELSE IF outcome.status = 429 THEN Then("sleep", NoneVal, base_delay * Pow2(n) * 2, err)
    ELSE IF outcome.status >= 500 THEN Then("sleep", NoneVal, base_delay * Pow2(n), err)
    ELSE Then("return", NoneVal, 0, err)

\* Variant: one attempt more than max_retries.
OneMoreAttempt(n) == 0..n

\* range(max_retries)
range(n) == 0..(n - 1)

(***************************************************************************)
(* Inputs                                                                  *)
(***************************************************************************)
\* Venue names, and the insertion orders of the snapshots: an arrangement and
\* its reverse, so that every pair of venues occurs in both orders.
PlatformNames == {<<"X">>, <<"Y">>, <<"K","a","l","s","h","i">>}
PlatformOrders == { << <<"X">>, <<"Y">>, <<"K","a","l","s","h","i">> >>,
                    << <<"K","a","l","s","h","i">>, <<"Y">>, <<"X">> >> }

\* Prices in hundredths.
Cents(n) == Float(n, 100)

\* The markets a venue may list: the two markets of the end-to-end example,
\* one event under two phrasings with prices that leave a profit in both
\* directions, a price of exactly 0 with the other side absent, a numeric
\* string as a price, and the same text for another year.
MarketBtcX == Market(QBtcX, [Yes |-> Cents(40), No |-> Cents(55)], NoneVal)
MarketBtcY == Market(QBtcY, [Yes |-> Cents(58), No |-> Cents(38)], Float(1000, 1))
MarketRain == Market(QRain25, [Yes |-> Cents(40), No |-> Cents(40)], Float(500, 1))
MarketRainB == Market(QRain25b, [Yes |-> Cents(49), No |-> Cents(50)], NoneVal)
MarketZero == Market(QRain25b, [Yes |-> Cents(0)], Float(0, 1))
MarketStr == Market(QRain25, [Yes |-> NumStr(40, 100), No |-> Cents(30)], NoneVal)
MarketRain24 == Market(QRain24, [Yes |-> Cents(40), No |-> Cents(40)], NoneVal)

MarketPool ==
    {MarketBtcX, MarketBtcY, MarketRain, MarketRainB, MarketZero, MarketStr, MarketRain24}

\* The most markets in one snapshot, all venues together.
MaxMarkets == 3

\* The most calls of detect_opportunities on one snapshot.
MaxCalls == 2

\* min_profit_threshold values: the constructor's default 2.0 and a stricter one.
MinProfitThresholds == {Rat(2, 1), Rat(12, 1)}

\* How many markets each of the three venues lists.
Distributions ==
    {d \in [1..3 -> 0..MaxMarkets] : d[1] + d[2] + d[3] <= MaxMarkets}

\* The snapshot in which the venues, in insertion order o, list l1, l2 and l3.
Snapshot(o, l1, l2, l3) ==
    << [name |-> o[1], markets |-> l1],
       [name |-> o[2], markets |-> l2],
       [name |-> o[3], markets |-> l3] >>

\* The markets of the snapshots find_matching_markets is called on: for the
\* matcher only the questions count.
MatchPool == {MarketRain, MarketRainB, MarketRain24}

\* The most markets in one of those snapshots, all venues together: two
\* venues can list two markets each.
MaxMatchMarkets == 4

MatchDistributions ==
    {d \in [1..3 -> 0..MaxMatchMarkets] : d[1] + d[2] + d[3] <= MaxMatchMarkets}

\* What a feed may give as the price of one side: nothing, a text that is not
\* a number, numbers and numeric strings outside (0,1), a numeric string
\* inside, and two usable numbers (0.40 + 0.40 leaves 25 %, 0.40 + 0.58
\* leaves 2.04 %, 0.58 + 0.58 nothing).
SidePrices ==
    { NoneVal, NonNumeric, Cents(0), Cents(150), NumStr(150, 100), NumStr(40, 100),
      Cents(40), Cents(58) }

\* The odds mapping with the given prices; a side without a price has no key.
OddsOf(yes, no) ==
    [k \in {s \in {"Yes", "No"} : (IF s = "Yes" THEN yes ELSE no) # NoneVal}
        |-> IF k = "Yes" THEN yes ELSE no]

\* What platform.fetch_markets() can end in: an exception or a list of markets.
FetchOutcomes ==
    { Raise("Exception"), Return(<<>>), Return(<<MarketBtcX>>), Return(<<MarketRain>>),
      Return(<<MarketRain, MarketBtcX>>), Return(<<MarketBtcX, MarketRain>>) }

\* What a request of fetch_with_retry can end in.
RequestOutcomes ==
    { Response(200, "json"), Response(200, "ContentTypeError"), Response(200, "ValueError"),
      Response(204, "json"), Response(404, "json"), Response(429, "json"),
      Response(500, "json"), Response(503, "json"),
      Raised("TimeoutError"), Raised("ClientError"), Raised("RuntimeError") }

\* The most attempts a caller asks for.
MaxRetries == 3

\* The environment: MIN_PROFIT_THRESHOLD unset or "2.0".
EnvMinProfitThresholds == {Unset, [kind |-> "set", val |-> Rat(2, 1)]}

\* ALLOWED_CATEGORIES=all, and the default sports,crypto.
CategorySettings == { {}, {"sports", "crypto"} }

(***************************************************************************)
(* Arguments of the calls of the pure functions                            *)
(***************************************************************************)
\* Prices handed to check_cross_platform_arbitrage: absent, not numeric,
\* numeric strings, and numbers below, on, inside and above the bounds of (0,1).
PriceValues ==
    { NoneVal, NonNumeric, NumStr(40, 100), NumStr(150, 100),
      Float(0 - 10, 100), Float(0, 1), Cents(1), Cents(40), Cents(49), Cents(50),
      Cents(51), Cents(60), Cents(99), Float(1, 1), Cents(150) }

\* similarity_threshold values.
SimilarityThresholds == {Rat(0, 1), Rat(75, 100), Rat(9, 10), Rat(1, 1)}

\* An opportunity of which only the question and the venues vary.
OpportunityOn(question, platform1, platform2) ==
    ArbitrageOpportunity(question, platform1, "Buy Yes", Cents(40),
                         platform2, "Buy No", Cents(40),
                         Float(2500, 100), Float(0, 1), Float(0, 1))

\* Questions and venue names for get_unique_key: those of the pools, and
\* short strings with and without the separator of the key.
KeyQuestions == Questions \cup {<<"a">>, <<"a","|","b">>}
KeyPlatforms == PlatformNames \cup {<<"b","|","c">>, <<"c">>, <<"d">>}

\* Values of ALLOWED_CATEGORIES in the environment, and lists of markets: one
\* about no category and one about crypto.
CategoryValues ==
    { <<>>, <<"a","l","l">>, <<"A","L","L">>, <<"s","p","o","r","t","s">>, <<"c","r","y","p","t","o">>, <<"s","p","o","r","t","s",",","c","r","y","p","t","o">>,
      <<" ","C","r","y","p","t","o"," ",",","s","p","o","r","t","s">>, <<"p","o","l","i","t","i","c","s">>, <<"s","p","o","r","t","s",",","p","o","l","i","t","i","c","s">> }
MarketLists ==
    { <<>>, <<MarketRain>>, <<MarketBtcX>>, <<MarketRain, MarketBtcX>>,
      <<MarketBtcX, MarketRain>> }

\* Raw prices of the venues' records: absent values, a string that is no
\* number, NaN, a negative number, the bounds, a probability, a numeric
\* string, cents or a percentage, and a number too large for either.
RawPrices ==
    { NoneVal, NonNumeric, NaN, Float(0 - 5, 1), Float(0, 1), Float(1, 2), Float(1, 1),
      NumStr(1, 2), Float(40, 1), Float(250, 1) }
SomeRawPrices == { NoneVal, Float(1, 2), Float(40, 1), Float(250, 1), Float(0 - 5, 1) }
RawBids == { Absent, NoneVal, Float(40, 1) }
RawVolumes == { Absent, Float(500, 1), NonNumeric }

\* The records handed to the parsers, one per call.
RawRecords(venue) ==
    CASE venue = "Polymarket" ->
            {[question |-> QRain25, outcomes |-> o, outcomePrices |-> p, volume |-> v] :
                o \in { <<"Yes", "No">>, <<"No", "Yes">>, <<"Yes">>, <<"Yes", "No", "Maybe">> },
                p \in UNION {[1..n -> SomeRawPrices] : n \in 2..3},
                v \in {Float(500, 1)}}
      [] venue = "Kalshi" ->
            {[question |-> QRain25, yes_ask |-> ya, no_ask |-> na, yes_bid |-> yb,
              no_bid |-> nb, volume |-> v] :
                ya \in SomeRawPrices, na \in SomeRawPrices, yb \in RawBids, nb \in RawBids,
                v \in {Float(500, 1)}}
      [] venue = "Drift BET" ->
            {[ticker_id |-> t, last_price |-> p, volume |-> v] :
                t \in { <<"T","R","U","M","P","-","W","I","N","-","2","0","2","4","-","B","E","T">>, <<"S","O","L","-","P","E","R","P">> },
                p \in RawPrices \cup {Absent}, v \in RawVolumes}
      [] venue = "Limitless" ->
            {[question |-> QRain25, prices |-> p, volume |-> v] :
                p \in UNION {[1..n -> RawPrices] : n \in {0, 1, 2}}, v \in {Absent, NonNumeric, Float(2000000, 1)}}
      [] venue = "Opinion Labs" ->
            {[question |-> q, yesPrice |-> y, noPrice |-> n, volume |-> v] :
                q \in {QRain25, <<>>}, y \in RawPrices, n \in RawPrices, v \in {Absent}}

Venues == {"Polymarket", "Kalshi", "Drift BET", "Limitless", "Opinion Labs"}

ArgumentsOf(f) ==
    CASE f = "check_cross_platform_arbitrage" -> PriceValues \X PriceValues
      [] f = "get_unique_key" ->
            {<<OpportunityOn(q, p1, p2)>> : q \in KeyQuestions,
                                            p1 \in KeyPlatforms, p2 \in KeyPlatforms}
      [] f = "are_same_event" -> Questions \X Questions \X SimilarityThresholds
      [] f = "similarity_ratio" -> Texts \X Texts
      [] f = "filter_markets" -> CategoryValues \X MarketLists
      [] f = "_parse_markets" ->
            UNION {{<<venue, <<r>>>> : r \in RawRecords(venue)} : venue \in Venues}

(***************************************************************************)
(* Spec: one call of detect_opportunities on a snapshot, or one call of a  *)
(* pure function of the engine on drawn arguments                          *)
(***************************************************************************)
NoCall == [status |-> "none", value |-> NoneVal]

\* No call of fetch_with_retry.
NoRetry ==
    /\ max_retries = 0
    /\ attempt = 0
    /\ requests = 0
    /\ history = <<>>
    /\ delay = 0
    /\ last_error = "None"

\* The engine called on its own: no monitor, no configuration, no fetch.
NoScan ==
    /\ MIN_PROFIT_THRESHOLD = Unset
    /\ ALLOWED_CATEGORIES = {}
    /\ fetched = <<>>
    /\ finish_order = <<>>

\* self._session = None
NoSession == 0

\* No monitoring loop: no session was created, no cycle run.
NoMonitor ==
    /\ _session = NoSession
    /\ sessions = 0
    /\ closed = {}
    /\ platform_sessions = [k \in DOMAIN platforms |-> NoSession]
    /\ invoked = <<>>
    /\ cycle = 0
    /\ stages = <<>>
    /\ notifier = FALSE

DetectInit ==
    /\ \E d \in Distributions, o \in PlatformOrders :
          \E l1 \in [1..d[1] -> MarketPool],
             l2 \in [1..d[2] -> MarketPool],
             l3 \in [1..d[3] -> MarketPool] :
              markets_by_platform = Snapshot(o, l1, l2, l3)
    /\ min_profit_threshold \in MinProfitThresholds
    /\ pc = "ready"
    /\ collected = <<>>
    /\ opportunities = <<>>
    /\ fn = "detect_opportunities"
    /\ args = <<>>
    /\ ret = NoCall
    /\ compared = <<>>
    /\ calls = 0
    /\ previous = <<>>
    /\ NoScan
    /\ NoRetry
    /\ NoMonitor

PureInit ==
    /\ fn \in {"check_cross_platform_arbitrage", "get_unique_key", "are_same_event",
               "similarity_ratio", "filter_markets", "_parse_markets"}
    /\ args \in ArgumentsOf(fn)
    /\ ret = NoCall
    /\ markets_by_platform = <<>>
    /\ min_profit_threshold = Rat(2, 1)
    /\ pc = "idle"
    /\ collected = <<>>
    /\ opportunities = <<>>
    /\ compared = <<>>
    /\ calls = 0
    /\ previous = <<>>
    /\ NoScan
    /\ NoRetry
    /\ NoMonitor

\* One call of find_matching_markets(markets_by_platform, args[1]).
MatchInit ==
    /\ \E d \in MatchDistributions, o \in PlatformOrders :
          \E l1 \in [1..d[1] -> MatchPool],
             l2 \in [1..d[2] -> MatchPool],
             l3 \in [1..d[3] -> MatchPool] :
              markets_by_platform = Snapshot(o, l1, l2, l3)
    /\ fn = "find_matching_markets"
    /\ args \in {<<th>> : th \in SimilarityThresholds}
    /\ ret = NoCall
    /\ min_profit_threshold = Rat(2, 1)
    /\ pc = "idle"
    /\ collected = <<>>
    /\ opportunities = <<>>
    /\ compared = <<>>
    /\ calls = 0
    /\ previous = <<>>
    /\ NoScan
    /\ NoRetry
    /\ NoMonitor

\* One call of detect_opportunities on a snapshot of one matched pair: the
\* same question on two venues, each side of each market with any price.
PairInit ==
    /\ \E y1 \in SidePrices, n1 \in SidePrices, y2 \in SidePrices, n2 \in SidePrices :
          markets_by_platform =
              Snapshot(<< <<"X">>, <<"Y">>, <<"K","a","l","s","h","i">> >>,
                       << Market(QRain25, OddsOf(y1, n1), NoneVal) >>,
                       << Market(QRain25b, OddsOf(y2, n2), NoneVal) >>,
                       <<>>)
    /\ min_profit_threshold \in MinProfitThresholds
    /\ pc = "ready"
    /\ collected = <<>>
    /\ opportunities = <<>>
    /\ fn = "detect_opportunities"
    /\ args = <<>>
    /\ ret = NoCall
    /\ compared = <<>>
    /\ calls = 0
    /\ previous = <<>>
    /\ NoScan
    /\ NoRetry
    /\ NoMonitor

Init == PureInit \/ DetectInit \/ MatchInit \/ PairInit

DetectOpportunities ==
    /\ pc = "ready"
    /\ \E out \in {detect_opportunities(markets_by_platform, min_profit_threshold)} :
          /\ pc' = IF out.status = "raise" THEN "raised" ELSE "returned"
          /\ opportunities' = IF out.status = "raise" THEN <<>> ELSE out.value
    /\ \E acc \in {Collected(markets_by_platform, min_profit_threshold)} :
          collected' = acc.opportunities
    /\ calls' = 1
    /\ UNCHANGED <<markets_by_platform, min_profit_threshold, fn, args, ret>>
    /\ UNCHANGED <<matchVars, previous, scanVars, retryVars>>
    /\ UNCHANGED monitorVars

\* A further call on the same snapshot, after a call that returned.
DetectOpportunitiesAgain ==
    /\ pc = "returned"
    /\ calls < MaxCalls
    /\ \E acc \in {CollectedFrom(NewSeenKeys(SeenKeysOf(opportunities)),
                                  markets_by_platform, min_profit_threshold)} :
          /\ collected' = acc.opportunities
          /\ \E out \in {SortAndReturn(acc)} :
                /\ pc' = IF out.status = "raise" THEN "raised" ELSE "returned"
                /\ opportunities' = IF out.status = "raise" THEN <<>> ELSE out.value
    /\ previous' = opportunities
    /\ calls' = calls + 1
    /\ UNCHANGED <<markets_by_platform, min_profit_threshold, fn, args, ret>>
    /\ UNCHANGED <<matchVars, scanVars, retryVars>>
    /\ UNCHANGED monitorVars

CallCheckCrossPlatformArbitrage ==
    /\ fn = "check_cross_platform_arbitrage" /\ ret = NoCall
    /\ ret' = check_cross_platform_arbitrage(args[1], args[2])
    /\ UNCHANGED <<markets_by_platform, min_profit_threshold, pc, collected,
                   opportunities, fn, args>>
    /\ UNCHANGED <<matchVars, detectVars, scanVars, retryVars>>
    /\ UNCHANGED monitorVars

CallGetUniqueKey ==
    /\ fn = "get_unique_key" /\ ret = NoCall
    /\ ret' = Return(get_unique_key(args[1]))
    /\ UNCHANGED <<markets_by_platform, min_profit_threshold, pc, collected,
                   opportunities, fn, args>>
    /\ UNCHANGED <<matchVars, detectVars, scanVars, retryVars>>
    /\ UNCHANGED monitorVars

CallAreSameEvent ==
    /\ fn = "are_same_event" /\ ret = NoCall
    /\ ret' = Return(are_same_event(args[1], args[2], args[3]))
    /\ UNCHANGED <<markets_by_platform, min_profit_threshold, pc, collected,
                   opportunities, fn, args>>
    /\ UNCHANGED <<matchVars, detectVars, scanVars, retryVars>>
    /\ UNCHANGED monitorVars

CallSimilarityRatio ==
    /\ fn = "similarity_ratio" /\ ret = NoCall
    /\ ret' = Return(similarity_ratio(args[1], args[2]))
    /\ UNCHANGED <<markets_by_platform, min_profit_threshold, pc, collected,
                   opportunities, fn, args>>
    /\ UNCHANGED <<matchVars, detectVars, scanVars, retryVars>>
    /\ UNCHANGED monitorVars

CallFindMatchingMarkets ==
    /\ fn = "find_matching_markets" /\ ret = NoCall
    /\ ret' = Return(find_matching_markets(markets_by_platform, args[1]))
    /\ compared' = Comparisons(markets_by_platform)
    /\ UNCHANGED <<markets_by_platform, min_profit_threshold, pc, collected,
                   opportunities, fn, args, detectVars, scanVars, retryVars>>
    /\ UNCHANGED monitorVars

\* CategoryFilter.filter_markets(args[2], _parse_categories(args[1])): the
\* filter on the set Config makes of the value of ALLOWED_CATEGORIES.
CallFilterMarkets ==
    /\ fn = "filter_markets" /\ ret = NoCall
    /\ ret' = Return(filter_markets(args[2], _parse_categories(args[1])))
    /\ UNCHANGED <<markets_by_platform, min_profit_threshold, pc, collected,
                   opportunities, fn, args>>
    /\ UNCHANGED <<matchVars, detectVars, scanVars, retryVars>>
    /\ UNCHANGED monitorVars

\* platform._parse_markets(args[2]) of the platform args[1].
CallParseMarkets ==
    /\ fn = "_parse_markets" /\ ret = NoCall
    /\ ret' = Return(_parse_markets(args[1], args[2]))
    /\ UNCHANGED <<markets_by_platform, min_profit_threshold, pc, collected,
                   opportunities, fn, args>>
    /\ UNCHANGED <<matchVars, detectVars, scanVars, retryVars>>
    /\ UNCHANGED monitorVars

Next ==
    \/ DetectOpportunities
    \/ DetectOpportunitiesAgain
    \/ CallFindMatchingMarkets
    \/ CallCheckCrossPlatformArbitrage
    \/ CallGetUniqueKey
    \/ CallAreSameEvent
    \/ CallSimilarityRatio
    \/ CallFilterMarkets
    \/ CallParseMarkets

Spec == Init /\ [][Next]_vars

(***************************************************************************)
(* ScanSpec: one scan of ArbitrageMonitor (run_once): the fetch tasks       *)
(* finish in any order, fetch_all_markets builds the mapping, the detector  *)
(* runs on it                                                              *)
(***************************************************************************)
ScanInit ==
    /\ MIN_PROFIT_THRESHOLD \in EnvMinProfitThresholds
    /\ ALLOWED_CATEGORIES \in CategorySettings
    /\ min_profit_threshold = ConfigMinProfitThreshold(MIN_PROFIT_THRESHOLD)
    /\ fetched = [k \in DOMAIN platforms |-> Pending]
    /\ finish_order = <<>>
    /\ markets_by_platform = <<>>
    /\ pc = "fetching"
    /\ collected = <<>>
    /\ opportunities = <<>>
    /\ fn = "run_once"
    /\ args = <<>>
    /\ ret = NoCall
    /\ compared = <<>>
    /\ calls = 0
    /\ previous = <<>>
    /\ NoRetry
    /\ NoMonitor

\* The task of the k-th platform finishes, with a result or an exception.
FetchMarketsDone(k) ==
    /\ pc = "fetching"
    /\ fetched[k] = Pending
    /\ \E outcome \in FetchOutcomes : fetched' = [fetched EXCEPT ![k] = outcome]
    /\ finish_order' = Append(finish_order, k)
    /\ UNCHANGED <<markets_by_platform, min_profit_threshold, pc, collected,
                   opportunities, fn, args, ret, matchVars, detectVars,
                   MIN_PROFIT_THRESHOLD, ALLOWED_CATEGORIES, retryVars>>
    /\ UNCHANGED monitorVars

\* All tasks are done: gather returns and fetch_all_markets builds the mapping.
FetchAllMarketsReturns ==
    /\ pc = "fetching"
    /\ \A k \in DOMAIN fetched : fetched[k] # Pending
    /\ markets_by_platform' = fetch_all_markets(fetched, finish_order, ALLOWED_CATEGORIES)
    /\ pc' = "ready"
    /\ UNCHANGED <<min_profit_threshold, collected, opportunities, fn, args, ret,
                   matchVars, detectVars, scanVars, retryVars>>
    /\ UNCHANGED monitorVars

ScanNext ==
    \/ \E k \in DOMAIN platforms : FetchMarketsDone(k)
    \/ FetchAllMarketsReturns
    \/ DetectOpportunities

ScanSpec == ScanInit /\ [][ScanNext]_vars

(***************************************************************************)
(* Properties                                                              *)
(***************************************************************************)
Called(f) == fn = f /\ ret.status # "none"
IsNumber(x) == x.kind = "float"
Missing(x) == x.kind = "None"
StrictlyInsideUnit(x) == IsNumber(x) /\ 0 < x.val.num /\ x.val.num < x.val.den
OutsideUnit(x) == x.kind \in {"float", "str"} /\ ~(0 < x.val.num /\ x.val.num < x.val.den)
\* p1 + p2 as a rational.
Sum(p1, p2) == Rat(p1.val.num * p2.val.den + p2.val.num * p1.val.den,
                   p1.val.den * p2.val.den)
Lists(markets, market) ==
    \E i \in DOMAIN markets : market \in Range(markets[i].markets)
VenuePair(o) == {o.platform1, o.platform2}

\* C1: every opportunity detect_opportunities returns has odds1 and odds2
\* strictly inside (0,1) and odds1 + odds2 < 1.0.
C1_OddsInsideUnitCostBelowOne ==
    pc = "returned" =>
        \A i \in DOMAIN opportunities :
            /\ StrictlyInsideUnit(opportunities[i].odds1)
            /\ StrictlyInsideUnit(opportunities[i].odds2)
            /\ RatLess(Sum(opportunities[i].odds1, opportunities[i].odds2), Rat(1, 1))

\* Opportunities returned from a snapshot that also lists a price of exactly 0.
C1_Witness ==
    /\ pc = "returned"
    /\ Len(opportunities) >= 1
    /\ Lists(markets_by_platform, MarketZero)

\* C2: for numbers p1, p2 strictly inside (0,1) with p1 + p2 < 1,
\* check_cross_platform_arbitrage returns ((1 - (p1+p2)) / (p1+p2)) * 100,
\* which is strictly positive.
C2_ProfitFormula ==
    ( /\ Called("check_cross_platform_arbitrage")
      /\ StrictlyInsideUnit(args[1]) /\ StrictlyInsideUnit(args[2])
      /\ RatLess(Sum(args[1], args[2]), Rat(1, 1)) )
    => /\ ret.status = "return"
       /\ IsNumber(ret.value)
       /\ RatEq(ret.value.val,
                Rat((Sum(args[1], args[2]).den - Sum(args[1], args[2]).num) * 100,
                    Sum(args[1], args[2]).num))
       /\ RatLess(Rat(0, 1), ret.value.val)

C2_Witness ==
    /\ Called("check_cross_platform_arbitrage")
    /\ args = <<Cents(40), Cents(49)>>
    /\ ret.status = "return" /\ IsNumber(ret.value)

\* C3: check_cross_platform_arbitrage returns None whenever a price is
\* missing, a price is outside the open interval (0,1) (0 and 1 included),
\* or the two prices are numbers with p1 + p2 >= 1.
C3_NotApplicable ==
    ( /\ Called("check_cross_platform_arbitrage")
      /\ \/ Missing(args[1]) \/ Missing(args[2])
         \/ OutsideUnit(args[1]) \/ OutsideUnit(args[2])
         \/ /\ IsNumber(args[1]) /\ IsNumber(args[2])
            /\ RatGeq(Sum(args[1], args[2]), Rat(1, 1)) )
    => ret = Return(NoneVal)

\* Two valid prices whose sum is exactly 1.
C3_Witness ==
    /\ Called("check_cross_platform_arbitrage")
    /\ args = <<Cents(50), Cents(50)>>
    /\ ret = Return(NoneVal)

\* C4: check_cross_platform_arbitrage never raises, whatever the two values
\* are (missing, non-numeric, or a numeric string that float() accepts).
C4_NeverRaises ==
    Called("check_cross_platform_arbitrage") => ret.status # "raise"

\* C5: the returned sequence never holds two opportunities with the same
\* question and the same unordered venue pair.
C5_OnePerQuestionAndVenuePair ==
    pc = "returned" =>
        \A i, j \in DOMAIN opportunities :
            i < j => ~( /\ opportunities[i].question = opportunities[j].question
                        /\ VenuePair(opportunities[i]) = VenuePair(opportunities[j]) )

\* One matched pair of which both directional strategies qualify (0.40 + 0.40
\* either way), and one opportunity returned for it.
C5_Witness ==
    /\ pc = "returned"
    /\ markets_by_platform =
           Snapshot(<< <<"X">>, <<"Y">>, <<"K","a","l","s","h","i">> >>,
                    <<MarketRain>>, <<MarketRain>>, <<>>)
    /\ Len(opportunities) = 1

\* C6: get_unique_key gives an opportunity on (X, Y) and one on (Y, X), with
\* the same question, the same key.
C6_KeyIgnoresVenueOrder ==
    Called("get_unique_key") =>
        ret.value = get_unique_key(OpportunityOn(args[1].question,
                                                 args[1].platform2, args[1].platform1))

\* A key computed for venues given in descending order.
C6_Witness ==
    /\ Called("get_unique_key")
    /\ StrLess(args[1].platform2, args[1].platform1)
    /\ ret.value = args[1].question \o <<"|">> \o args[1].platform2
                   \o <<"|">> \o args[1].platform1

IndexIn(s, x) == CHOOSE k \in DOMAIN s : s[k] = x
Profit(o) == o.profit_percentage.val

\* C7: the returned sequence is in descending order of profit_percentage, and
\* opportunities of equal profit are in the order in which they were appended.
C7_SortedDescendingStable ==
    pc = "returned" =>
        \A i, j \in DOMAIN opportunities :
            i < j =>
                /\ RatGeq(Profit(opportunities[i]), Profit(opportunities[j]))
                /\ RatEq(Profit(opportunities[i]), Profit(opportunities[j]))
                   => IndexIn(collected, opportunities[i])
                      < IndexIn(collected, opportunities[j])

\* The sort moved an opportunity and two others have the same profit.
C7_Witness ==
    /\ pc = "returned"
    /\ opportunities # collected
    /\ \E i, j \in DOMAIN opportunities :
           i < j /\ RatEq(Profit(opportunities[i]), Profit(opportunities[j]))

\* C8: every returned opportunity has the profit the evaluator gives for its
\* (odds1, odds2), and that profit is at least min_profit_threshold.
C8_ProfitFromEvaluatorAboveThreshold ==
    pc = "returned" =>
        \A i \in DOMAIN opportunities :
            /\ check_cross_platform_arbitrage(opportunities[i].odds1,
                                              opportunities[i].odds2)
               = Return(opportunities[i].profit_percentage)
            /\ RatGeq(Profit(opportunities[i]), min_profit_threshold)

\* Under the threshold 12 the second strategy of a pair is returned: the
\* first (11.1 %) was below the threshold.
C8_Witness ==
    /\ pc = "returned"
    /\ min_profit_threshold = Rat(12, 1)
    /\ \E i \in DOMAIN opportunities :
           /\ opportunities[i].action1 = "Buy No"
           /\ opportunities[i].odds2 = Cents(49)

\* C9: are_same_event returns no match for two questions whose year sets are
\* both non-empty and different, whatever the ratio and the threshold.
C9_DifferentYearsNeverMatch ==
    ( /\ Called("are_same_event")
      /\ _extract_years(args[1]) # {} /\ _extract_years(args[2]) # {}
      /\ _extract_years(args[1]) # _extract_years(args[2]) )
    => ret.value[1] = FALSE

\* "Rain 2025?" against "Rain 2024?": the ratio 0.9 passes the threshold 0.75.
C9_Witness ==
    /\ Called("are_same_event")
    /\ args = <<QRain25, QRain24, Rat(75, 100)>>
    /\ RatGeq(ret.value[2], args[3])
    /\ ret.value[1] = FALSE

\* The end-to-end example: venue X lists the $100k question, venue Y the
\* $100,000 one, and no other market is listed.
IsEndToEndExample(markets) ==
    \E i, j \in DOMAIN markets :
        /\ markets[i].name = <<"X">> /\ markets[i].markets = <<MarketBtcX>>
        /\ markets[j].name = <<"Y">> /\ markets[j].markets = <<MarketBtcY>>
        /\ \A k \in DOMAIN markets \ {i, j} : markets[k].markets = <<>>

\* C10: are_same_event returns no match for two questions whose price-target
\* token sets are both non-empty and not equal as sets of strings; and the
\* end-to-end pair of the specification yields no opportunity.
C10_DifferentPriceTargetsNeverMatch ==
    /\ ( /\ Called("are_same_event")
         /\ _extract_price_targets(args[1]) # {}
         /\ _extract_price_targets(args[2]) # {}
         /\ _extract_price_targets(args[1]) # _extract_price_targets(args[2]) )
       => ret.value[1] = FALSE
    /\ (pc = "returned" /\ IsEndToEndExample(markets_by_platform))
       => opportunities = <<>>

\* "BTC $100k 2025" against "BTC $100,000 2025": the ratio 26/31 passes the
\* threshold 0.75 and the years agree, the tokens "$100k" and "$100,000" differ.
C10_Witness ==
    /\ Called("are_same_event")
    /\ args = <<QBtcK, QBtcFull, Rat(75, 100)>>
    /\ RatGeq(ret.value[2], args[3])
    /\ _extract_years(args[1]) = _extract_years(args[2])
    /\ _extract_price_targets(args[1]) = {<<"$","1","0","0","k">>}
    /\ _extract_price_targets(args[2]) = {<<"$","1","0","0",",","0","0","0">>}
    /\ ret.value[1] = FALSE

\* C11: similarity_ratio(a, b) = similarity_ratio(b, a) for all texts a and b,
\* and similarity_ratio(a, a) = 1.0 for every non-empty a.
C11_RatioSymmetricReflexive ==
    Called("similarity_ratio") =>
        /\ ret.value = similarity_ratio(args[2], args[1])
        /\ (args[1] = args[2] /\ args[1] # <<>>) => ret.value = Rat(1, 1)

\* The comparisons made of market a of platform i against market b of platform j.
TimesCompared(i, a, j, b) ==
    Cardinality({k \in DOMAIN compared : compared[k] = <<i, a, j, b>>})

\* C12: find_matching_markets never compares a market with a market of its own
\* venue, compares each combination of a market of one venue and a market of
\* another exactly once, in one of the two venue orders, and emits no tuple
\* a second time with the venues swapped.
C12_EachVenuePairOnce ==
    Called("find_matching_markets") =>
        /\ \A k \in DOMAIN compared : compared[k][1] # compared[k][3]
        /\ \A i, j \in DOMAIN markets_by_platform :
               i # j =>
                   \A a \in DOMAIN markets_by_platform[i].markets,
                      b \in DOMAIN markets_by_platform[j].markets :
                       TimesCompared(i, a, j, b) + TimesCompared(j, b, i, a) = 1
        /\ \A k, l \in DOMAIN ret.value :
               ~( /\ ret.value[k][1] = ret.value[l][3]
                  /\ ret.value[k][3] = ret.value[l][1] )

\* Three venues that each list a market: three venue pairs are visited.
C12_Witness ==
    /\ Called("find_matching_markets")
    /\ \A i \in DOMAIN markets_by_platform : markets_by_platform[i].markets # <<>>
    /\ Len(compared) = 3
    /\ Len(ret.value) >= 2

\* The positions <<i, j, a, b>> of the market pairs that are a match.
MatchedPositions(markets, threshold) ==
    {p \in (DOMAIN markets) \X (DOMAIN markets) \X (1..MaxMatchMarkets) \X (1..MaxMatchMarkets) :
        /\ p[1] < p[2]
        /\ p[3] \in DOMAIN markets[p[1]].markets
        /\ p[4] \in DOMAIN markets[p[2]].markets
        /\ are_same_event(markets[p[1]].markets[p[3]].question,
                          markets[p[2]].markets[p[4]].question, threshold)[1]}

\* p before q in the order V1, then V2, then m1, then m2.
EnumeratedBefore(p, q) ==
    \/ p[1] < q[1]
    \/ p[1] = q[1] /\ p[2] < q[2]
    \/ p[1] = q[1] /\ p[2] = q[2] /\ p[3] < q[3]
    \/ p[1] = q[1] /\ p[2] = q[2] /\ p[3] = q[3] /\ p[4] < q[4]

\* The tuple find_matching_markets is to emit for the position p.
TupleAt(markets, p) ==
    << markets[p[1]].name, markets[p[1]].markets[p[3]],
       markets[p[2]].name, markets[p[2]].markets[p[4]],
       similarity_ratio(markets[p[1]].markets[p[3]].question,
                        markets[p[2]].markets[p[4]].question) >>

\* The result r holds the tuple of each position of E at the rank the
\* position has in the enumeration order, and nothing else.
EmittedInOrder(markets, E, r) ==
    /\ Len(r) = Cardinality(E)
    /\ \A p \in E :
           r[1 + Cardinality({q \in E : EnumeratedBefore(q, p)})] = TupleAt(markets, p)

\* C13: find_matching_markets returns exactly the tuples (V1, m1, V2, m2,
\* similarity) with V1 before V2 in insertion order for which are_same_event
\* is a match under the given threshold, each once, in the order V1, then
\* V2, then m1, then m2.
C13_MatchesInEnumerationOrder ==
    Called("find_matching_markets") =>
        EmittedInOrder(markets_by_platform,
                       MatchedPositions(markets_by_platform, args[1]), ret.value)

\* Two venues with two markets each, three of the four combinations a match
\* under the threshold 0.75 (the fourth differs in the year).
C13_Witness ==
    /\ Called("find_matching_markets")
    /\ args = << Rat(75, 100) >>
    /\ \E i, j \in DOMAIN markets_by_platform :
           /\ i < j
           /\ markets_by_platform[i].markets = <<MarketRain, MarketRain24>>
           /\ markets_by_platform[j].markets = <<MarketRainB, MarketRain24>>
    /\ Len(compared) = 4
    /\ Len(ret.value) = 2

\* A record with a price that is not a number.
IsCorrupt(market) ==
    \E k \in DOMAIN market.odds : market.odds[k].kind \in {"str", "other"}

\* The snapshot without its corrupt records.
WithoutCorrupt(markets) ==
    [i \in DOMAIN markets |->
        [markets[i] EXCEPT !.markets = SelectSeq(@, LAMBDA m : ~IsCorrupt(m))]]

\* C14: a corrupt Market record never aborts the scan: when the scan is over,
\* it did not raise, and every opportunity of the pairs of valid records is
\* among the opportunities returned.
C14_CorruptRecordNeverAborts ==
    pc \in {"returned", "raised"} =>
        /\ pc = "returned"
        /\ \A o \in Range(detect_opportunities(WithoutCorrupt(markets_by_platform),
                                                min_profit_threshold).value) :
               o \in Range(opportunities)

(***************************************************************************)
(* RetrySpec: one call of fetch_with_retry. Every step of the coroutine is  *)
(* eventually taken: a request ends in a response or an exception (the      *)
(* request has a timeout), a sleep ends.                                    *)
(***************************************************************************)
RetryInit ==
    /\ max_retries \in 0..MaxRetries
    /\ attempt = 0
    /\ requests = 0
    /\ history = <<>>
    /\ delay = 0
    /\ last_error = "None"
    /\ pc = "for"
    /\ fn = "fetch_with_retry"
    /\ args = <<>>
    /\ ret = NoCall
    /\ markets_by_platform = <<>>
    /\ min_profit_threshold = Rat(2, 1)
    /\ collected = <<>>
    /\ opportunities = <<>>
    /\ compared = <<>>
    /\ calls = 0
    /\ previous = <<>>
    /\ NoScan
    /\ NoMonitor

engineVars == <<markets_by_platform, min_profit_threshold, collected, opportunities,
                compared, calls, previous>>

\* What the iteration does once its request has ended.
Continue(step) ==
    /\ pc' = CASE step.then = "return" -> "done"
                [] step.then = "raise" -> "done"
                [] step.then = "sleep" -> "sleeping"
                [] step.then = "break" -> "after"
    /\ ret' = CASE step.then = "return" -> Return(step.value)
                 [] step.then = "raise" -> Raise("Exception")
                 [] OTHER -> ret
    /\ delay' = step.seconds
    /\ last_error' = step.error

\* An iteration of the loop: the request is issued and ends.
Request ==
    /\ pc = "for"
    /\ attempt \in range(max_retries)
    /\ requests' = requests + 1
    /\ \E outcome \in RequestOutcomes :
          /\ history' = Append(history, outcome)
          /\ Continue(BodyOfLoop(outcome, attempt, last_error))
    /\ UNCHANGED <<max_retries, attempt, fn, args, engineVars, scanVars>>
    /\ UNCHANGED monitorVars

\* The asyncio.sleep ends and the loop goes to its next iteration.
Wake ==
    /\ pc = "sleeping"
    /\ pc' = "for"
    /\ attempt' = attempt + 1
    /\ delay' = 0
    /\ UNCHANGED <<max_retries, requests, history, last_error, ret, fn, args,
                   engineVars, scanVars>>
    /\ UNCHANGED monitorVars

\* Lines 95-96: the loop is exhausted or was left by break.
GiveUp ==
    /\ \/ pc = "after"
       \/ pc = "for" /\ attempt \notin range(max_retries)
    /\ pc' = "done"
    /\ ret' = Return(NoneVal)
    /\ UNCHANGED <<max_retries, attempt, requests, history, delay, last_error, fn, args,
                   engineVars, scanVars>>
    /\ UNCHANGED monitorVars

RetryNext == Request \/ Wake \/ GiveUp

RetrySpec == RetryInit /\ [][RetryNext]_vars /\ WF_vars(RetryNext)

\* fetch_all_markets has returned.
Fetched == fetched # <<>> /\ pc \in {"ready", "returned", "raised"}

\* C15: whatever the fetch outcomes and the order in which the tasks finish,
\* the mapping fetch_all_markets returns has a key for every configured
\* platform, in the configured order; a platform whose fetch failed maps to
\* the empty sequence, and every other platform to its own fetch result,
\* filtered by category.
C15_EveryPlatformItsOwnResult ==
    Fetched =>
        /\ Len(markets_by_platform) = Len(platforms)
        /\ \A k \in DOMAIN platforms :
               /\ markets_by_platform[k].name = platforms[k]
               /\ markets_by_platform[k].markets =
                      IF fetched[k].status = "raise" THEN <<>>
                      ELSE filter_markets(fetched[k].value, ALLOWED_CATEGORIES)

\* The last platform finished first and failed, the first finished last with
\* two markets of which the category filter keeps one.
C15_Witness ==
    /\ Fetched
    /\ finish_order = <<3, 2, 1>>
    /\ fetched[3].status = "raise"
    /\ fetched[1] = Return(<<MarketRain, MarketBtcX>>)
    /\ ALLOWED_CATEGORIES = {"sports", "crypto"}
    /\ markets_by_platform[1].markets = <<MarketBtcX>>
    /\ markets_by_platform[3].markets = <<>>

\* C16: detect_opportunities leaves the snapshot, its Market records and the
\* detector's min_profit_threshold as they were, and no deduplication state
\* survives the call: a further call on the same snapshot returns the same
\* sequence as the call before it.
C16_InputUnchangedNoStateKept ==
    /\ [](calls >= 2 => pc = "returned" /\ opportunities = previous)
    /\ [][(DetectOpportunities \/ DetectOpportunitiesAgain)
            => /\ markets_by_platform' = markets_by_platform
               /\ min_profit_threshold' = min_profit_threshold]_vars

\* A second call that returned an opportunity the first call had deduplicated
\* the other strategy of.
C16_Witness ==
    /\ calls = 2
    /\ pc = "returned"
    /\ Len(opportunities) >= 1
    /\ \E i, j \in DOMAIN markets_by_platform :
           /\ i < j
           /\ markets_by_platform[i].markets = <<MarketRain>>
           /\ markets_by_platform[j].markets = <<MarketRain>>

\* C17: a scan run with no threshold configured uses the minimum profit 2.0
\* and the similarity 0.75, and whatever similarity threshold the caller
\* supplies is the one detect_opportunities matches the markets with.
C17_DefaultsAndSuppliedThreshold ==
    /\ (fn = "run_once" /\ MIN_PROFIT_THRESHOLD = Unset)
           => min_profit_threshold = Rat(2, 1)
    /\ (fn = "run_once" /\ pc \in {"returned", "raised"})
           => \A similarity_threshold \in SimilarityThresholds :
                  MatchingMarkets(markets_by_platform)
                  = find_matching_markets(markets_by_platform, similarity_threshold)

\* The snapshot holds one pair: one market on the first venue, one on the
\* second, none on the third, and the two are a match.
IsOnePair(markets) ==
    /\ Len(markets) = 3
    /\ Len(markets[1].markets) = 1
    /\ Len(markets[2].markets) = 1
    /\ markets[3].markets = <<>>
    /\ are_same_event(markets[1].markets[1].question, markets[2].markets[1].question,
                      Rat(75, 100))[1]

\* A price that is a number strictly inside (0,1), and one that is missing
\* or invalid: not a number at all, or outside (0,1).
Usable(x) == StrictlyInsideUnit(x)
MissingOrInvalid(x) == Missing(x) \/ x.kind = "other" \/ OutsideUnit(x)

\* The strategy that buys at a and at b qualifies under the threshold.
Qualifies(a, b, threshold) ==
    /\ Usable(a) /\ Usable(b)
    /\ RatLess(Sum(a, b), Rat(1, 1))
    /\ RatGeq(Rat((Sum(a, b).den - Sum(a, b).num) * 100, Sum(a, b).num), threshold)

\* o is the opportunity of the strategy with the given actions and prices.
Carries(o, action1, odds1, action2, odds2) ==
    /\ o.action1 = action1 /\ o.odds1 = odds1
    /\ o.action2 = action2 /\ o.odds2 = odds2

\* What C18 requires of the opportunities returned for the pair m1, m2.
StrategiesIndependent(m1, m2, threshold, returned) ==
    IF Qualifies(Get(m1.odds, "Yes"), Get(m2.odds, "No"), threshold)
    THEN /\ Len(returned) = 1
         /\ Carries(returned[1], "Buy Yes", Get(m1.odds, "Yes"), "Buy No", Get(m2.odds, "No"))
    ELSE IF Qualifies(Get(m1.odds, "No"), Get(m2.odds, "Yes"), threshold)
    THEN /\ Len(returned) = 1
         /\ Carries(returned[1], "Buy No", Get(m1.odds, "No"), "Buy Yes", Get(m2.odds, "Yes"))
    ELSE returned = <<>>

\* Every price of the two markets is usable, missing or invalid.
PricesPlain(m1, m2) ==
    \A k \in {"Yes", "No"} :
        /\ Usable(Get(m1.odds, k)) \/ MissingOrInvalid(Get(m1.odds, k))
        /\ Usable(Get(m2.odds, k)) \/ MissingOrInvalid(Get(m2.odds, k))

\* C18: for a matched pair the two strategies are evaluated independently: a
\* missing or invalid "Yes" or "No" price skips, without error, only the
\* strategy that uses it, and when one strategy qualifies (the first of the
\* two if both do, the second having the same key) the opportunity returned
\* carries that strategy's actions and prices.
C18_StrategiesIndependent ==
    ( /\ pc \in {"returned", "raised"}
      /\ IsOnePair(markets_by_platform)
      /\ PricesPlain(markets_by_platform[1].markets[1], markets_by_platform[2].markets[1]) )
    => /\ pc = "returned"
       /\ StrategiesIndependent(markets_by_platform[1].markets[1],
                                markets_by_platform[2].markets[1],
                                min_profit_threshold, opportunities)

\* "Yes" has no price on the first venue and "No" is not a number on the
\* second: the first strategy is skipped and the second, No@1 + Yes@2, is
\* the one returned.
C18_Witness ==
    /\ pc = "returned"
    /\ IsOnePair(markets_by_platform)
    /\ markets_by_platform[1].markets[1].odds = OddsOf(NoneVal, Cents(40))
    /\ markets_by_platform[2].markets[1].odds = OddsOf(Cents(40), NonNumeric)
    /\ Len(opportunities) = 1
    /\ Carries(opportunities[1], "Buy No", Cents(40), "Buy Yes", Cents(40))

\* The request ended in a 200 response whose body was decoded.
IsDecoded200(outcome) == outcome = Response(200, "json")

\* A failure after which the loop goes on: 429, a server error, a timeout, a
\* client error (a body of the wrong content type is one).
IsRetryable(outcome) ==
    \/ outcome.kind = "raise" /\ outcome.body \in {"TimeoutError", "ClientError"}
    \/ outcome.kind = "response" /\ outcome.status = 429
    \/ outcome.kind = "response" /\ outcome.status >= 500
    \/ outcome = Response(200, "ContentTypeError")

\* C19: whatever the requests end in, fetch_with_retry returns the JSON body
\* of a 200 response or None, and no exception leaves it.
C19_JsonOrNoneNeverRaises ==
    fn = "fetch_with_retry" =>
        /\ ret.status # "raise"
        /\ pc = "done" =>
               \/ /\ ret = Return(JsonBody)
                  /\ history # <<>> /\ IsDecoded200(history[Len(history)])
               \/ /\ ret = Return(NoneVal)
                  /\ history # <<>> => ~IsDecoded200(history[Len(history)])

\* A timeout, then a 200 response whose body json() cannot decode: None.
C19_Witness ==
    /\ fn = "fetch_with_retry"
    /\ pc = "done"
    /\ history = << Raised("TimeoutError"), Response(200, "ValueError") >>
    /\ ret = Return(NoneVal)

\* C20: fetch_with_retry terminates, never issues more than max_retries
\* requests, and when every request fails retryably it returns None after
\* exactly max_retries requests.
C20_TerminatesWithinMaxRetries ==
    /\ (fn = "fetch_with_retry") ~> (pc = "done")
    /\ [](fn = "fetch_with_retry" => requests <= max_retries)
    /\ []( ( /\ fn = "fetch_with_retry" /\ pc = "done"
              /\ \A k \in DOMAIN history : IsRetryable(history[k]) )
            => (ret = Return(NoneVal) /\ requests = max_retries) )

\* Three requests, rate-limited, timed out and answered with a server error.
C20_Witness ==
    /\ fn = "fetch_with_retry"
    /\ pc = "done"
    /\ max_retries = 3
    /\ history = << Response(429, "json"), Raised("TimeoutError"), Response(503, "json") >>
    /\ requests = 3
    /\ ret = Return(NoneVal)

\* The opportunity of the strategy that buys `side1` on the first venue of the
\* matched pair m and `side2` on the second, if it qualifies: its question,
\* venues, actions, prices and profit.
StrategyOf(m, side1, side2, threshold) ==
    IF Qualifies(Get(m[2].odds, side1), Get(m[4].odds, side2), threshold)
    THEN << [question |-> m[2].question,
             platform1 |-> m[1], action1 |-> "Buy " \o side1, odds1 |-> Get(m[2].odds, side1),
             platform2 |-> m[3], action2 |-> "Buy " \o side2, odds2 |-> Get(m[4].odds, side2),
             profit |-> Rat((Sum(Get(m[2].odds, side1), Get(m[4].odds, side2)).den
                             - Sum(Get(m[2].odds, side1), Get(m[4].odds, side2)).num) * 100,
                            Sum(Get(m[2].odds, side1), Get(m[4].odds, side2)).num)] >>
    ELSE <<>>

\* Every qualifying strategy in enumeration order: the matched pairs in
\* matcher order and, within a pair, Yes@first + No@second before
\* No@first + Yes@second.
CandidatesOf(matched, threshold) ==
    Concat([k \in DOMAIN matched |->
               StrategyOf(matched[k], "Yes", "No", threshold)
               \o StrategyOf(matched[k], "No", "Yes", threshold)])

Candidates == CandidatesOf(find_matching_markets(markets_by_platform, Rat(75, 100)),
                           min_profit_threshold)

\* The dedup key of a candidate.
KeyOf(c) == get_unique_key(OpportunityOn(c.question, c.platform1, c.platform2))

\* The returned opportunity o is the candidate c.
IsCandidate(o, c) ==
    /\ o.question = c.question
    /\ o.platform1 = c.platform1 /\ o.action1 = c.action1 /\ o.odds1 = c.odds1
    /\ o.platform2 = c.platform2 /\ o.action2 = c.action2 /\ o.odds2 = c.odds2
    /\ o.profit_percentage.val = c.profit

\* What C21 requires of the sequence `returned`, c being the candidates.
FirstOfEachKeyKept(c, returned) ==
    /\ Len(returned) = Cardinality({KeyOf(c[k]) : k \in DOMAIN c})
    /\ \A k \in DOMAIN c :
           (\A l \in 1..(k - 1) : KeyOf(c[l]) # KeyOf(c[k]))
               => \E i \in DOMAIN returned : IsCandidate(returned[i], c[k])

\* C21: of the qualifying strategies that share a dedup key,
\* detect_opportunities returns the first in enumeration order and no other,
\* even when a later one has a strictly higher profit.
C21_FirstCandidateKept ==
    pc = "returned" => FirstOfEachKeyKept(Candidates, opportunities)

\* A later candidate of strictly higher profit than the returned opportunity
\* of its key.
HigherProfitDiscarded(c, returned) ==
    \E k \in DOMAIN c, i \in DOMAIN returned :
        /\ KeyOf(c[k]) = get_unique_key(returned[i])
        /\ RatLess(returned[i].profit_percentage.val, c[k].profit)

C21_Witness ==
    /\ pc = "returned"
    /\ min_profit_threshold = Rat(2, 1)
    /\ markets_by_platform =
           Snapshot(<< <<"X">>, <<"Y">>, <<"K","a","l","s","h","i">> >>,
                    <<MarketRain>>, <<MarketRainB>>, <<>>)
    /\ Len(opportunities) = 1
    /\ Carries(opportunities[1], "Buy Yes", Cents(40), "Buy No", Cents(50))
    /\ HigherProfitDiscarded(Candidates, opportunities)


YearsAgree(q1, q2) ==
    _extract_years(q1) = {} \/ _extract_years(q2) = {}
    \/ _extract_years(q1) = _extract_years(q2)

PriceTargetsAgree(q1, q2) ==
    _extract_price_targets(q1) = {} \/ _extract_price_targets(q2) = {}
    \/ _extract_price_targets(q1) = _extract_price_targets(q2)

\* C22: are_same_event returns a match exactly when the similarity ratio is at
\* least the threshold (equal passes), the year sets are equal or one is empty,
\* and the price-target sets are equal or one is empty; the extracted date
\* lists have no influence, and the score returned is always the ratio.
C22_MatchIffRatioYearsTargets ==
    Called("are_same_event") =>
        /\ ret.value[2] = similarity_ratio(args[1], args[2])
        /\ ret.value[1] = ( /\ RatGeq(similarity_ratio(args[1], args[2]), args[3])
                            /\ YearsAgree(args[1], args[2])
                            /\ PriceTargetsAgree(args[1], args[2]) )

\* "Rain Q1 2025" against "Rain Q2 2025" at the threshold 0.9: both have a
\* date, the dates differ, the ratio is 22/24, and the call reports a match.
C22_Witness ==
    /\ Called("are_same_event")
    /\ args = <<QRainQ1, QRainQ2, Rat(9, 10)>>
    /\ _extract_dates(args[1]) = << << <<"1">>, <<"2","0","2","5">> >> >>
    /\ _extract_dates(args[2]) = << << <<"2">>, <<"2","0","2","5">> >> >>
    /\ ret.value = <<TRUE, Rat(22, 24)>>


\* C23: two opportunities that differ in question or in their unordered venue
\* pair never get the same key, whatever the question and venue-name strings
\* are, strings containing "|" included.
C23_KeyInjective ==
    Called("get_unique_key") =>
        \A a \in ArgumentsOf("get_unique_key") :
            get_unique_key(a[1]) = ret.value
            => ( /\ a[1].question = args[1].question
                 /\ VenuePair(a[1]) = VenuePair(args[1]) )


\* The snapshot with its venues inserted in the order p.
Reordered(markets, p) == [k \in DOMAIN markets |-> markets[p[k]]]
Orders(markets) ==
    {p \in [DOMAIN markets -> DOMAIN markets] :
        \A k1, k2 \in DOMAIN markets : p[k1] = p[k2] => k1 = k2}

\* How many of the opportunities are between the two venues of `pair`.
CountFor(pair, opps) == Cardinality({k \in DOMAIN opps : VenuePair(opps[k]) = pair})

SameCounts(opps1, opps2) ==
    \A p1, p2 \in PlatformNames : CountFor({p1, p2}, opps1) = CountFor({p1, p2}, opps2)

ReturnsSameCounts(opps, out) == out.status = "return" => SameCounts(opps, out.value)

\* C24: inserting the venues of the snapshot in another order never changes
\* how many opportunities detect_opportunities returns for an unordered pair
\* of venues.
C24_CountIndependentOfVenueOrder ==
    pc = "returned" =>
        \A p \in Orders(markets_by_platform) :
            ReturnsSameCounts(opportunities,
                              detect_opportunities(Reordered(markets_by_platform, p),
                                                   min_profit_threshold))


\* A response with a status other than 200, 429 and 5xx, and an exception that
\* is neither a timeout nor a client error (response.json() may raise it too).
IsOtherStatus(outcome) ==
    outcome.kind = "response" /\ outcome.status # 200 /\ outcome.status # 429
    /\ outcome.status < 500
IsOtherException(outcome) ==
    \/ outcome.kind = "raise" /\ outcome.body \notin {"TimeoutError", "ClientError"}
    \/ outcome.kind = "response" /\ outcome.status = 200
       /\ outcome.body \notin {"json", "ContentTypeError"}

\* C25: in fetch_with_retry a request is followed by another one only if it
\* ended in a timeout, a client error, a 429 or a 5xx, and then it is followed
\* by one as long as attempts remain; a response with any other status than
\* 200 and any other exception end the call with None at once.
C25_OnlyRetryableFollowedByRequest ==
    fn = "fetch_with_retry" =>
        /\ \A k \in DOMAIN history : k < Len(history) => IsRetryable(history[k])
        /\ (pc = "done" /\ history # <<>>) =>
               /\ (IsOtherStatus(history[Len(history)])
                   \/ IsOtherException(history[Len(history)]))
                      => ret = Return(NoneVal)
               /\ IsRetryable(history[Len(history)]) => requests = max_retries
        /\ (pc \in {"sleeping", "after"})
               => (IsRetryable(history[Len(history)]) <=> pc = "sleeping")

\* A server error was followed by a second request, the 404 that request
\* ended in was not followed by a third although one attempt remained.
C25_Witness ==
    /\ fn = "fetch_with_retry"
    /\ pc = "done"
    /\ max_retries = 3
    /\ history = << Response(503, "json"), Response(404, "json") >>
    /\ requests = 2
    /\ ret = Return(NoneVal)


\* C26: fetch_with_retry sleeps only when another request follows the sleep:
\* never after the last of its max_retries attempts.
C26_NoSleepAfterFinalAttempt ==
    (fn = "fetch_with_retry" /\ pc = "sleeping") => attempt + 1 \in range(max_retries)


(***************************************************************************)
(* MonitorSpec: the loop of run_continuous with _ensure_session and         *)
(* _close_session (src/main.py). A step runs from one await to the next:    *)
(* from the top of the loop to `await asyncio.gather`, from the end of the  *)
(* gather to `await send_alerts` or to `await asyncio.sleep`. Between two   *)
(* scans _close_session may be called, and at any await the session may be  *)
(* closed by someone else.                                                  *)
(***************************************************************************)
\* The most cycles of the loop, and the most sessions created.
MaxCycles == 3
MaxSessions == 3

\* What a platform's fetch_markets can end in within the loop: an exception,
\* one market, or one market with a numeric string as a price.
MonitorFetchOutcomes ==
    { Raise("Exception"), Return(<<MarketRain>>), Return(<<MarketStr>>) }

\* Lines 121-124 for every combination of those outcomes, computed once: what
\* detect_opportunities ends in on the mapping fetch_all_markets returns, with
\* no category filter and the threshold of an unset MIN_PROFIT_THRESHOLD.
MonitorDetections ==
    [results \in [DOMAIN platforms -> MonitorFetchOutcomes] |->
        detect_opportunities(fetch_all_markets(results, <<>>, {}),
                             ConfigMinProfitThreshold(Unset))] @@ <<>>

\* Lines 121-124: detect_opportunities on the mapping built from `results`.
DetectionOn(results, order, allowed_categories, threshold) ==
    IF /\ allowed_categories = {}
       /\ threshold = ConfigMinProfitThreshold(Unset)
       /\ results \in DOMAIN MonitorDetections
    THEN MonitorDetections[results]
    ELSE detect_opportunities(fetch_all_markets(results, order, allowed_categories),
                              threshold)

\* Variant: a closed session is kept.
NeedsSessionIfNone(session, closed_sessions) == session = NoSession

\* Line 52: self._session is None or self._session.closed
NeedsSession(session, closed_sessions) ==
    session = NoSession \/ session \in closed_sessions

\* Lines 50-59: the monitor's session and the platforms' sessions after
\* _ensure_session; a new session is the next one after the `count` created.
_ensure_session(session, count, closed_sessions, of_platforms) ==
    IF NeedsSession(session, closed_sessions)
    THEN [_session |-> count + 1, sessions |-> count + 1,
          platform_sessions |-> [k \in DOMAIN of_platforms |-> count + 1]]
    ELSE [_session |-> session, sessions |-> count, platform_sessions |-> of_platforms]

\* Lines 61-65: the monitor's session and the closed sessions after _close_session.
_close_session(session, closed_sessions) ==
    IF session # NoSession /\ session \notin closed_sessions
    THEN [_session |-> NoSession, closed |-> closed_sessions \cup {session}]
    ELSE [_session |-> session, closed |-> closed_sessions]

\* Lines 78-79: platform.fetch_markets() of every platform, each with the
\* session it holds, the monitor's session at that moment, and whether the
\* session it holds is open.
Invocations(of_platforms, session, closed_sessions) ==
    [k \in DOMAIN of_platforms |->
        [session |-> of_platforms[k], current |-> session,
         open |-> of_platforms[k] # NoSession /\ of_platforms[k] \notin closed_sessions]]

\* Variant: no except clause, the exception leaves run_once.
RunOnceNoExcept(outcome) == outcome

\* Lines 134-141: what run_once returns when scan_for_arbitrage ended in `outcome`.
run_once(outcome) ==
    IF outcome.status = "raise" THEN Return(<<>>) ELSE outcome

MonitorInit ==
    /\ fn = "run_continuous"
    /\ pc = "while"
    /\ notifier \in BOOLEAN
    /\ _session = NoSession
    /\ sessions = 0
    /\ closed = {}
    /\ platform_sessions = [k \in DOMAIN platforms |-> NoSession]
    /\ invoked = <<>>
    /\ cycle = 0
    /\ stages = <<>>
    /\ min_profit_threshold = ConfigMinProfitThreshold(Unset)
    /\ markets_by_platform = <<>>
    /\ collected = <<>>
    /\ opportunities = <<>>
    /\ args = <<>>
    /\ ret = NoCall
    /\ compared = <<>>
    /\ calls = 0
    /\ previous = <<>>
    /\ NoScan
    /\ NoRetry

\* run_once is left with `outcome` of scan_for_arbitrage, which failed at
\* `stage` ("none" if it did not); the locals of the scan are gone. An
\* exception that leaves run_once leaves run_continuous, otherwise the loop
\* goes on to asyncio.sleep(Config.CHECK_INTERVAL).
EndOfRunOnce(outcome, stage) ==
    /\ ret' = run_once(outcome)
    /\ pc' = IF run_once(outcome).status = "raise" THEN "raised" ELSE "interval"
    /\ stages' = Append(stages, stage)
    /\ markets_by_platform' = <<>>
    /\ opportunities' = <<>>

\* Lines 71-81 once _ensure_session has left the sessions as in `ensured`.
InvokeFetchMarkets(ensured) ==
    /\ _session' = ensured._session
    /\ sessions' = ensured.sessions
    /\ platform_sessions' = ensured.platform_sessions
    /\ invoked' = Invocations(ensured.platform_sessions, ensured._session, closed)
    /\ fetched' = [k \in DOMAIN platforms |-> Pending]
    /\ pc' = "gather"
    /\ ret' = NoCall
    /\ UNCHANGED <<stages, markets_by_platform, opportunities>>

\* Lines 164-170, 136, 118-121 and 71-81: the next cycle starts, and runs to
\* the await of the gather; the constructor of the session may raise.
BeginCycle ==
    /\ pc = "while"
    /\ cycle < MaxCycles
    /\ cycle' = cycle + 1
    /\ \E constructed \in BOOLEAN :
          IF NeedsSession(_session, closed) /\ ~constructed
          THEN /\ EndOfRunOnce(Raise("Exception"), "fetch")
               /\ UNCHANGED <<_session, sessions, platform_sessions, invoked, fetched>>
          ELSE InvokeFetchMarkets(_ensure_session(_session, sessions, closed,
                                                  platform_sessions))
    /\ UNCHANGED <<min_profit_threshold, collected, fn, args, closed, notifier>>
    /\ UNCHANGED <<MIN_PROFIT_THRESHOLD, ALLOWED_CATEGORIES, finish_order>>
    /\ UNCHANGED <<matchVars, detectVars, retryVars>>

\* Lines 124-131 once detect_opportunities has ended in `out`.
AfterDetection(mapping, out) ==
    IF out.status = "raise" THEN EndOfRunOnce(out, "detect")
    ELSE IF out.value # <<>> /\ notifier
         THEN /\ pc' = "alert"
              /\ markets_by_platform' = mapping
              /\ opportunities' = out.value
              /\ UNCHANGED <<ret, stages>>
         ELSE EndOfRunOnce(out, "none")

\* The fetch_markets task of platform k ends.
TaskDone(k) ==
    /\ fn = "run_continuous"
    /\ pc = "gather"
    /\ fetched[k] = Pending
    /\ \E outcome \in MonitorFetchOutcomes : fetched' = [fetched EXCEPT ![k] = outcome]
    /\ UNCHANGED <<markets_by_platform, min_profit_threshold, pc, collected, opportunities,
                   fn, args, ret>>
    /\ UNCHANGED monitorVars
    /\ UNCHANGED <<MIN_PROFIT_THRESHOLD, ALLOWED_CATEGORIES, finish_order>>
    /\ UNCHANGED <<matchVars, detectVars, retryVars>>

\* Lines 81-113 and 124-131: all tasks are done, the gather ends,
\* fetch_all_markets returns the mapping, detect_opportunities runs on it.
Gathered ==
    /\ fn = "run_continuous"
    /\ pc = "gather"
    /\ \A k \in DOMAIN fetched : fetched[k] # Pending
    /\ \E mapping \in {fetch_all_markets(fetched, finish_order, ALLOWED_CATEGORIES)} :
          \E out \in {DetectionOn(fetched, finish_order, ALLOWED_CATEGORIES,
                                   min_profit_threshold)} :
              AfterDetection(mapping, out)
    /\ fetched' = <<>>
    /\ UNCHANGED <<min_profit_threshold, collected, fn, args>>
    /\ UNCHANGED <<_session, sessions, closed, platform_sessions, invoked, cycle, notifier>>
    /\ UNCHANGED <<MIN_PROFIT_THRESHOLD, ALLOWED_CATEGORIES, finish_order>>
    /\ UNCHANGED <<matchVars, detectVars, retryVars>>

\* Lines 130-132: send_alerts ends, with or without an exception.
AlertsSent ==
    /\ pc = "alert"
    /\ \E outcome \in {Return(opportunities), Raise("Exception")} :
          EndOfRunOnce(outcome, IF outcome.status = "raise" THEN "alert" ELSE "none")
    /\ UNCHANGED <<min_profit_threshold, collected, fn, args>>
    /\ UNCHANGED <<_session, sessions, closed, platform_sessions, invoked, cycle, notifier>>
    /\ UNCHANGED <<matchVars, detectVars, scanVars, retryVars>>


\* Line 173: the sleep of Config.CHECK_INTERVAL seconds ends.
IntervalElapsed ==
    /\ pc = "interval"
    /\ pc' = "while"
    /\ UNCHANGED <<markets_by_platform, min_profit_threshold, collected, opportunities,
                   fn, args, ret>>
    /\ UNCHANGED monitorVars
    /\ UNCHANGED <<matchVars, detectVars, scanVars, retryVars>>

\* _close_session is called between two scans, on an open session.
CloseSession ==
    /\ fn = "run_continuous"
    /\ pc \in {"while", "interval"}
    /\ sessions < MaxSessions
    /\ _close_session(_session, closed).closed # closed
    /\ _session' = _close_session(_session, closed)._session
    /\ closed' = _close_session(_session, closed).closed
    /\ UNCHANGED <<markets_by_platform, min_profit_threshold, pc, collected, opportunities,
                   fn, args, ret>>
    /\ UNCHANGED <<sessions, platform_sessions, invoked, cycle, stages, notifier>>
    /\ UNCHANGED <<matchVars, detectVars, scanVars, retryVars>>

\* The monitor's session is closed by someone else while the loop awaits.
ExternalClose ==
    /\ fn = "run_continuous"
    /\ pc \in {"while", "interval", "gather", "alert"}
    /\ sessions < MaxSessions
    /\ _session # NoSession /\ _session \notin closed
    /\ closed' = closed \cup {_session}
    /\ UNCHANGED <<markets_by_platform, min_profit_threshold, pc, collected, opportunities,
                   fn, args, ret>>
    /\ UNCHANGED <<_session, sessions, platform_sessions, invoked, cycle, stages, notifier>>
    /\ UNCHANGED <<matchVars, detectVars, scanVars, retryVars>>

\* The steps of the loop itself.
LoopNext ==
    \/ BeginCycle
    \/ \E k \in DOMAIN platforms : TaskDone(k)
    \/ Gathered
    \/ AlertsSent
    \/ IntervalElapsed

MonitorNext == LoopNext \/ CloseSession \/ ExternalClose

\* An await of the loop ends: the requests of the gather and of the alerts
\* have timeouts, the sleep is finite.
MonitorSpec == MonitorInit /\ [][MonitorNext]_vars /\ WF_vars(LoopNext)

\* C27: whenever fetch_all_markets invokes the platforms' fetch_markets, after
\* whatever scans, _close_session calls and closures of the session by someone
\* else, every platform holds the monitor's current session and it is open.
C27_PlatformsHoldOpenCurrentSession ==
    fn = "run_continuous" =>
        \A k \in DOMAIN invoked :
            /\ invoked[k].current # NoSession
            /\ invoked[k].session = invoked[k].current
            /\ invoked[k].open

\* The third scan, started after the first session was closed and the second
\* too: every platform is invoked with the third session.
C27_Witness ==
    /\ fn = "run_continuous"
    /\ pc = "gather"
    /\ cycle = 3
    /\ closed = {1, 2}
    /\ _session = 3
    /\ \A k \in DOMAIN invoked : invoked[k] = [session |-> 3, current |-> 3, open |-> TRUE]

\* C28: no exception leaves run_once, a scan that raised while fetching,
\* detecting or sending alerts makes run_once return the empty list, and the
\* loop of run_continuous goes on to the next cycle after every cycle.
C28_LoopSurvivesFailedScans ==
    /\ [](fn = "run_continuous" => (pc # "raised" /\ ret.status # "raise"))
    /\ []((fn = "run_continuous" /\ pc = "interval" /\ stages[Len(stages)] # "none")
            => ret = Return(<<>>))
    /\ \A n \in 1..(MaxCycles - 1) :
           (fn = "run_continuous" /\ cycle = n) ~> (cycle = n + 1)

\* Three cycles, the scans of which raised while fetching, while detecting
\* and while sending alerts.
C28_Witness ==
    /\ fn = "run_continuous"
    /\ pc = "interval"
    /\ cycle = 3
    /\ stages = <<"fetch", "detect", "alert">>
    /\ ret = Return(<<>>)


\* The categories a value of ALLOWED_CATEGORIES names.
NamedIn(value) ==
    {c.name : c \in {k \in KnownCategories :
                        \E cat \in Range(Split(value, ",")) : Lower(Strip(cat)) = k.spelling}}

\* C29: unless the value of ALLOWED_CATEGORIES is empty or "all", filter_markets
\* on the parsed value returns, in input order, exactly the markets whose
\* detected category is one the value names.
C29_FilterDisabledOnlyForEmptyOrAll ==
    ( /\ Called("filter_markets")
      /\ args[1] # <<>>
      /\ Lower(args[1]) # <<"a","l","l">> )
    => ret.value = SelectSeq(args[2],
                             LAMBDA m : categorize_market(m.question) \in NamedIn(args[1]))

(***************************************************************************)
(* C30                                                                     *)
(***************************************************************************)
ParsedRecord == args[2][1]
Emitted == fn = "_parse_markets" /\ ret # NoCall /\ ret.status = "return" /\ ret.value # <<>>

\* The raw Yes and No prices of a record, and what the venue's conversion of
\* units makes of them.
RawYesNo(venue, r) ==
    CASE venue = "Polymarket" ->
            {r.outcomePrices[i] : i \in {j \in PricedOutcomes(r.outcomes, r.outcomePrices) :
                                            r.outcomes[j] \in {"Yes", "No"}}}
      [] venue = "Kalshi" -> {AskOrBid(r.yes_ask, r.yes_bid), AskOrBid(r.no_ask, r.no_bid)}
      [] venue = "Drift BET" -> {GetOr(r.last_price, Float(0, 1))}
      [] venue = "Limitless" -> {r.prices[i] : i \in DOMAIN r.prices \cap {1, 2}}
      [] venue = "Opinion Labs" -> {r.yesPrice, r.noPrice}
InUnits(venue, r, x) ==
    CASE venue = "Polymarket" -> AsFloat(x)
      [] venue = "Kalshi" -> Hundredth(AsFloat(x))
      [] venue = "Drift BET" -> PercentToUnit(AsFloat(x))
      [] venue = "Limitless" -> PercentToUnit(AsFloat(x))
      [] venue = "Opinion Labs" -> BothToUnit(AsFloat(x), AsFloat(r.yesPrice), AsFloat(r.noPrice))
CanBeNormalized(venue, r) ==
    \A x \in RawYesNo(venue, r) : Floats(x) /\ InUnitRange(InUnits(venue, r, x))

\* The price itself if it is within [0,1], 0 if it is below, 1 if it is above
\* or not a number.
NearestInUnitRange(p) ==
    IF InUnitRange(p) THEN p
    ELSE IF FloatLess(p, Float(0, 1)) THEN Float(0, 1)
    ELSE Float(1, 1)

YesAndNoInUnitRange ==
    \A i \in DOMAIN ret.value :
        /\ {"Yes", "No"} \subseteq DOMAIN ret.value[i].odds
        /\ \A o \in DOMAIN ret.value[i].odds : InUnitRange(ret.value[i].odds[o])

====
